---- MODULE Spec2Model ----
(***************************************************************************)
(* A model of the SGE event pipeline: the stream fabric (JetStream streams *)
(* and durable consumers), the enrichment worker with its cached threat-   *)
(* intel lookup, the correlation engine's consumer, and the archival sink;  *)
(* the rule engine under reload, the SOAR playbook engine, the HTTP ingest  *)
(* handler and the packet inspector's worker pool.                          *)
(***************************************************************************)
EXTENDS Integers, Sequences, FiniteSets, TLC

VARIABLES
    rawLog,         \* every message published on events.raw.>, in publish order
    rawStored,      \* indices of rawLog still retained by the events stream
    enrLog,         \* every message accepted on events.enriched.>, in order
    enrStored,      \* indices of enrLog still retained by the events stream
    alertLog,       \* every alert message accepted by the publish buffer
    handled,        \* per durable consumer: the messages its handler was run on
    acked,          \* per durable consumer: the messages it acknowledged
    rdb,            \* enrichment's Redis client: "nil" or "conn"
    redisUp,        \* whether Redis answers commands at the moment
    cache,          \* threat:intel:<ip> keys: ip -> [val, exp] (expiry hour)
    now,            \* wall clock, in hours
    providerCalls,  \* every call to the external intel provider: [ip, t]
    enrichCrashed,  \* the enrichment process died of a panic
    geoDB,          \* whether geoip.NewProvider could open the GeoIP database
    buffer,         \* ClickHouseSink.buffer
    store,          \* rows inserted in the columnar store
    sinkWritten,    \* every event ever handed to ClickHouseSink.Write
    rules,          \* Engine.rules: the compiled rule set
    counters,       \* correlation:counter:<ruleId> keys: rule id -> [val, exp]
    loading,        \* the LoadRules call in progress or last finished
    evalPc,         \* the Evaluate call in progress, if any
    lastEval,       \* what the last finished Evaluate call saw and returned
    playbooks,      \* soar Engine.playbooks; <<>> before NewEngine
    soarTasks,      \* one Execute goroutine per alert: its alert and position
    execLog,        \* every call of an action's Execute: [task, pb, step, ...]
    cmdLog,         \* every command handed to the publish buffer
    httpLog,        \* every answered POST /api/v1/events
    workerPool,     \* PacketInspector.workerPool: the queued jobs
    poolClosed,     \* PacketInspector.Stop has closed the channel
    droppedCount,   \* PacketInspector.droppedCount
    processedCount, \* PacketInspector.processedCount
    lastSubmit,     \* how the last ProcessPacket call ended
    stats,          \* PacketInspector.stats: events and threats counted
    lastInspect,    \* what the last processPacket call did with its result
    eventChan,      \* Inspector.eventChan: the events queued downstream
    lastCapture,    \* how the last captureLoop iteration ended
    pktTime,        \* timestamp of the last packet given to the beacon tracker
    beaconEntries,  \* BeaconTracker.entries: flow key -> entry
    beaconArrivals, \* per flow key: the timestamps of its packets, in order
    lastBeacon,     \* what the last BeaconTracker.Check call returned
    scanTime,       \* timestamp of the last packet given to the port-scan tracker
    scanEntries,    \* PortScanTracker.entries: source IP -> entry
    portSeen,       \* per source IP: destination port -> time of last contact
    scanCalls,      \* PortScanTracker.Check calls made
    scanMatches,    \* per source IP: port_scan matches returned
    lastScan,       \* what the last PortScanTracker.Check call did
    anomalyTime,    \* timestamp of the last packet given to the anomaly tracker
    anomalyEntries, \* AnomalyTracker.entries: source IP -> entry
    lastAnomaly,    \* what the last AnomalyTracker.Check call returned
    cb,             \* NATSProducer.circuitBreaker
    natsUp,         \* whether a publish to JetStream succeeds at the moment
    batchLen,       \* len(NATSProducer.batchBuf)
    consecFailures, \* failed publishes since the last successful one
    lastFlush,      \* what the last flush call with a non-empty buffer did
    sinkLife,       \* the archival service's shutdown: done closed, loop returned, exit
    np,             \* NATSProducer: its batch channel, its goroutines, what became of events
    conns,          \* per bus client: the status of its connection and its failed attempts
    mtls,           \* MTLSManager: the tls.Config objects, m.tlsConfig, the files, the rotation
    lastParse,      \* the payload given to a protocol parser and what the parser did
    sensorLife      \* the sensor's shutdown: ctx cancelled, where each capture loop is

vars == <<rawLog, rawStored, enrLog, enrStored, alertLog, handled, acked,
          rdb, redisUp, cache, now, providerCalls, enrichCrashed, geoDB,
          buffer, store, sinkWritten, rules, counters,
          loading, evalPc, lastEval,
          playbooks, soarTasks, execLog, cmdLog, httpLog,
          workerPool, poolClosed, droppedCount, processedCount, lastSubmit,
          stats, lastInspect, eventChan, lastCapture,
          pktTime, beaconEntries, beaconArrivals, lastBeacon,
          scanTime, scanEntries, portSeen, scanCalls, scanMatches, lastScan,
          anomalyTime, anomalyEntries, lastAnomaly,
          cb, natsUp, batchLen, consecFailures, lastFlush,
          sinkLife, np, conns, mtls, lastParse, sensorLife>>

fabricVars == <<rawLog, rawStored, enrLog, enrStored, alertLog, handled, acked>>
intelVars  == <<rdb, redisUp, cache, now, providerCalls, enrichCrashed, geoDB>>
sinkVars   == <<buffer, store, sinkWritten>>
engineVars == <<loading, evalPc, lastEval>>
soarVars   == <<playbooks, soarTasks, execLog, cmdLog>>
dpiVars    == <<workerPool, poolClosed, droppedCount, processedCount, lastSubmit>>

sensorVars == <<stats, lastInspect, eventChan, lastCapture>>

\* the state of the sensor-side components: capture, detectors, producer
beaconVars == <<beaconEntries, beaconArrivals, lastBeacon>>
scanVars   == <<scanTime, scanEntries, portSeen, scanCalls, scanMatches, lastScan>>
anomalyVars == <<anomalyTime, anomalyEntries, lastAnomaly>>
breakerVars == <<cb, natsUp, batchLen, consecFailures, lastFlush>>

\* the state of start-up and shutdown, of connections and of the parsers
lifeVars   == <<sinkLife, np, conns, mtls, lastParse, sensorLife>>

\* the state of the threat detector's trackers and of the sensor's producer
detVars    == <<pktTime, beaconVars, scanVars, anomalyVars, breakerVars, lifeVars>>
ext2Vars == <<sensorVars, detVars>>

\* the state of the components outside the event pipeline
extVars == <<counters, engineVars, soarVars, httpLog, dpiVars, ext2Vars>>

-----------------------------------------------------------------------------
(* Bounds of the model *)

\* raw messages published in one behaviour
MaxRaw == 2
\* last hour the clock reaches
MaxTime == 24
\* the sink's batch size (cfg.BatchSize, 5000 by default), scaled down
BatchSize == 2
\* the clock advances in steps of this many hours
TickHours == 12
\* Execute goroutines started in one behaviour
MaxTasks == 2
\* POST requests answered in one behaviour
MaxPosts == 2
\* capacity of the inspector's job queue (10000 in the code), scaled down
QueueCap == 2
\* packets submitted to the inspector in one behaviour
MaxPackets == 4
\* capacity of the downstream event channel (chosen by the caller), scaled down
EventChanCap == 2
\* packets given to the beacon tracker in one behaviour
MaxBeaconPackets == 12
\* time between two packets given to the beacon tracker (1 s), in ticks
BeaconGap == 10
\* length of a period without traffic (601 s), in ticks
QuietTicks == 6010
\* packets given to the port-scan tracker in one behaviour
MaxScanPackets == 152
\* time between two packets given to the port-scan tracker, in ms
ScanGapMs == 50
\* length of a period without traffic, in ms
ScanQuietMs == 130000
\* the second source is seen only in the first ms of the capture
MaxOtherTime == 100
\* packets given to the anomaly tracker in one behaviour
MaxAnomalyPackets == 17
\* time between two packets given to the anomaly tracker, in ms
AnomalyGapMs == 10
\* the producer's batch size (cfg.Resources.BatchSize), scaled down
ProducerBatchSize == 2
\* events the producer's buffer holds at most in one behaviour
MaxBuf == 2
\* the breaker's clock advances in steps of this many seconds
CbTickSec == 10
\* successes the breaker counts in one behaviour without being reset
MaxSuccess == 4
\* failed publishes in a row in one behaviour
MaxConsec == 7
\* capacity of the producer's batch channel (10000 in the code), scaled down
BatchChCap == 2
\* events the batch buffer holds at most in the model; the code has no limit
MaxBacklog == 4
\* events offered to Publish in one behaviour
MaxAccepted == 10
\* failed reconnect attempts in a row the model follows
MaxAttempts == 12
\* GetTLSConfig calls in one behaviour
MaxGets == 4
\* bytes after the DNS header in the payloads enumerated
MaxNameBytes == 4
\* bytes of the extensions block in the ClientHello payloads enumerated
MaxExtBytes == 7
\* bytes of the server names enumerated
MaxSNIBytes == 3
\* bytes of the Host header values enumerated
MaxHostBytes == 2
\* certificate rotations started in one behaviour
MaxRotations == 3

-----------------------------------------------------------------------------
(* Program constants *)

\* limits of the sensor's ClientHello parser
MaxTLSPayloadSize == 16384
MaxSNILength == 253
MinTLSHelloSize == 43

\* limits of the sensor's HTTP request parser
MaxPayloadSize == 8192
MaxHostLength == 255

\* MaxReconnects of the ingest service's bus client
IngestMaxReconnects == 10
\* output.nats.max_reconnect_attempts by default
MaxReconnectAttempts == 10

\* TTL of a threat-intel cache entry, in hours (24*60*60 seconds)
IntelTTL == 24

\* cfg.PortScan.PortThreshold, by default
PortThreshold == 100
\* cfg.PortScan.Window (60 seconds by default), in ms
PortScanWindow == 60000

\* CircuitBreaker.threshold, timeout (seconds) and recoveryThreshold as
\* NewNATSProducer sets them
CBThreshold == 5
CBTimeout == 30
RecoveryThreshold == 3

circuitClosed   == "closed"
circuitHalfOpen == "half-open"
circuitOpen     == "open"

\* AnomalyTracker.window (1 minute), in ms
AnomalyWindow == 60000
\* packet sizes an anomaly entry keeps
MaxSizes == 100
\* packet sizes an entry needs before it is analysed
MinSizes == 10
\* largest packet size that is not reported as oversized
MaxPacketSize == 65535

\* BeaconTracker.window (5 minutes), in ticks of 100 ms
BeaconWindow == 3000
\* BeaconTracker.minScore
BeaconMinScore == 70
\* intervals an entry needs before it is analysed
MinIntervals == 10
\* intervals an entry keeps
MaxIntervals == 50

SeverityInfo     == "info"
SeverityLow      == "low"
SeverityMedium   == "medium"
SeverityHigh     == "high"
SeverityCritical == "critical"

Severity == {SeverityInfo, SeverityLow, SeverityMedium, SeverityHigh, SeverityCritical}

\* position of a severity in the order info < low < medium < high < critical
SevRank(s) ==
    CASE s = SeverityInfo     -> 1
      [] s = SeverityLow      -> 2
      [] s = SeverityMedium   -> 3
      [] s = SeverityHigh     -> 4
      [] s = SeverityCritical -> 5

AlertStatusNew == "new"

ConsumerEnrichment  == "SGE_ENRICHMENT_PROCESSOR"
ConsumerCorrelation == "SGE_CORRELATION_ENGINE"
ConsumerArchival    == "SGE_ARCHIVAL_WORKER"
ConsumerSOAR        == "SGE_SOAR_EXECUTOR"

Consumers == {ConsumerEnrichment, ConsumerCorrelation, ConsumerArchival, ConsumerSOAR}

-----------------------------------------------------------------------------
(* Subjects.  A string is a sequence of atoms; "." and ">" are atoms of     *)
(* their own, so that concatenation and tokenisation act as on characters. *)

Str(s) == IF s = "" THEN <<>> ELSE <<s>>

TopicEventsRaw      == <<"events", ".", "raw", ".", ">">>
TopicEventsEnriched == <<"events", ".", "enriched", ".", ">">>
TopicAlerts         == <<"alerts", ".", ">">>

\* the subject the agent's heartbeat is published on
HeartbeatTopic == <<"events", ".", "raw", ".", "info", ".", "agent">>

RECURSIVE SplitDots(_, _, _)
SplitDots(s, cur, acc) ==
    IF s = <<>> THEN Append(acc, cur)
    ELSE IF Head(s) = "." THEN SplitDots(Tail(s), <<>>, Append(acc, cur))
    ELSE SplitDots(Tail(s), Append(cur, Head(s)), acc)

\* the dot-separated tokens of a subject
Tokens(s) == SplitDots(s, <<>>, <<>>)

RECURSIVE TokensMatch(_, _)
TokensMatch(f, t) ==
    IF f = <<>> THEN t = <<>>
    ELSE IF Head(f) = <<">">> THEN Len(f) = 1 /\ Len(t) >= 1
    ELSE IF t = <<>> THEN FALSE
    ELSE /\ (Head(f) = <<"*">> \/ Head(f) = Head(t))
         /\ TokensMatch(Tail(f), Tail(t))

\* whether a published subject is selected by a stream's or a consumer's
\* filter; a subject with an empty token is selected by no filter
SubjectMatches(filter, subject) ==
    /\ \A n \in DOMAIN Tokens(subject) : Tokens(subject)[n] # <<>>
    /\ TokensMatch(Tokens(filter), Tokens(subject))

-----------------------------------------------------------------------------
(* Events and their wire form *)

IPs == {"1.2.3.4", "10.0.0.1"}

\* the Event a decoder yields for a JSON object with none of the Event fields
ZeroEvent ==
    [id |-> "", source |-> "", source_ip |-> "", severity |-> "",
     tags |-> <<>>, enrichment |-> {}]

\* the id carried by the n-th event put on the bus
EventId(n) == CASE n = 1 -> "E1" [] n = 2 -> "E2" [] n = 3 -> "E3" [] OTHER -> "E4"

\* the severities the producers of the model give their events
ProducedSeverities == {SeverityInfo, SeverityHigh, SeverityCritical}

\* canonical events a producer publishes as its n-th message
ProducedEvents(n) ==
    {[id |-> EventId(n), source |-> "agent", source_ip |-> ip, severity |-> sev,
      tags |-> <<>>, enrichment |-> {}] :
        ip \in IPs \cup {""}, sev \in ProducedSeverities}

\* json.Marshal of an Event
Marshal(evt) == [kind |-> "event", evt |-> evt]

\* the agent's heartbeat: a HostInfo object, which has none of the Event fields
HostInfoJSON == [kind |-> "hostinfo", evt |-> ZeroEvent]

\* bytes that are not a JSON object
Garbage == [kind |-> "garbage", evt |-> ZeroEvent]

\* json.Unmarshal into an Event
Unmarshal(data) ==
    IF data.kind = "garbage" THEN [ok |-> FALSE, evt |-> ZeroEvent]
    ELSE [ok |-> TRUE, evt |-> data.evt]

\* assignment m[k] = v on an enrichment map, held as a set of <<key, value>>
MapSet(m, k, v) == {p \in m : p[1] # k} \cup {<<k, v>>}

-----------------------------------------------------------------------------
(* Rules *)

dummyRule ==
    [id |-> "rule-001", name |-> "Critical Severity Event",
     condition |-> "Event.Severity == 'critical'", severity |-> SeverityCritical]

highRule ==
    [id |-> "rule-002", name |-> "High Severity Event",
     condition |-> "Event.Severity == 'high'", severity |-> SeverityHigh]

\* a rule whose program fails at run time on an event without tags
tagRule ==
    [id |-> "rule-003", name |-> "First Tag",
     condition |-> "Event.Tags[0] == 'x'", severity |-> SeverityMedium]

\* a rule whose condition does not compile
brokenRule ==
    [id |-> "rule-004", name |-> "Broken",
     condition |-> "Event.Severity ==", severity |-> SeverityLow]

\* the rule lists handed to LoadRules
RuleLists ==
    {<<dummyRule>>, <<dummyRule, highRule>>, <<brokenRule, dummyRule, tagRule>>,
     <<tagRule, highRule>>, <<brokenRule>>}

\* the events handed to Evaluate by a direct caller
EvalEvents ==
    {[id |-> "E1", source |-> "agent", source_ip |-> "", severity |-> sev,
      tags |-> tags, enrichment |-> {}] :
        sev \in {SeverityHigh, SeverityCritical}, tags \in {<<>>, <<"x">>}}

\* expr.Compile: whether the condition compiles
Compiles(condition) ==
    condition \in {"Event.Severity == 'critical'", "Event.Severity == 'high'",
                   "Event.Tags[0] == 'x'"}

\* expr.Run of a compiled condition on an event: the output, or an error
RunProgram(condition, evt) ==
    CASE condition = "Event.Severity == 'critical'" ->
            [err |-> FALSE, out |-> evt.severity = "critical"]
      [] condition = "Event.Severity == 'high'" ->
            [err |-> FALSE, out |-> evt.severity = "high"]
      [] condition = "Event.Tags[0] == 'x'" ->
            IF Len(evt.tags) = 0 THEN [err |-> TRUE, out |-> FALSE]
            ELSE [err |-> FALSE, out |-> evt.tags[1] = "x"]
      [] OTHER -> [err |-> TRUE, out |-> FALSE]

\* Engine.LoadRules: the rules that compile, keyed by id (a later rule of the
\* list replaces an earlier one with the same id)
LoadRules(rs) ==
    LET good == {j \in 1..Len(rs) : Compiles(rs[j].condition)}
        ids  == {rs[j].id : j \in good}
        last(id) == CHOOSE j \in good :
                        /\ rs[j].id = id
                        /\ \A k \in good : rs[k].id = id => k <= j
    IN [id \in ids |-> rs[last(id)]]

\* an engine that gives up the whole evaluation at the first runtime error
EvaluateView_AbortOnError(view, evt) ==
    IF \E x \in DOMAIN view : RunProgram(view[x].condition, evt).err THEN {}
    ELSE {view[id] : id \in {x \in DOMAIN view : RunProgram(view[x].condition, evt).out}}

\* the loop of Engine.Evaluate over the rule map it read: a rule whose program
\* fails is passed over, a rule whose output is true is a match
EvaluateView(view, evt) ==
    {view[id] : id \in {x \in DOMAIN view :
                            /\ ~RunProgram(view[x].condition, evt).err
                            /\ RunProgram(view[x].condition, evt).out}}

\* Engine.Evaluate: the loaded rules matching the event
Evaluate(evt) == EvaluateView(rules, evt)

\* the rule map m with only the entries of the ids in S
Restrict(m, S) == [id \in S |-> m[id]]

\* the rule maps a reader may find behind e.rules when the store of LoadRules
\* is not ordered with its read: the map just stored, or the map with only
\* part of the entries written into it
RacyViews(stored) == {Restrict(stored, S) : S \in SUBSET DOMAIN stored}

\* RedisClient.IncrementCorrelationCounter: INCR and EXPIRE of the rule's key
\* in one pipeline; the value after the increment, 0 and an error when Redis
\* does not answer
IncrementCorrelationCounter(ruleID, window) ==
    IF ~redisUp THEN [val |-> 0, err |-> TRUE, counters |-> counters]
    ELSE LET cur == IF counters[ruleID].exp > now THEN counters[ruleID].val ELSE 0
         IN [val |-> cur + 1, err |-> FALSE,
             counters |-> [counters EXCEPT ![ruleID] =
                              [val |-> cur + 1, exp |-> now + window]]]

-----------------------------------------------------------------------------
(* Shared state cache and threat intel *)

\* an absent key
NoKey == [val |-> "", exp |-> 0]

\* RedisClient.SetThreatIntel: the cache after SET threat:intel:<ip> with a TTL;
\* the command has no effect when Redis does not answer
SetThreatIntel(ip, data, ttl) ==
    IF redisUp THEN [cache EXCEPT ![ip] = [val |-> data, exp |-> now + ttl]]
    ELSE cache

\* RedisClient.GetThreatIntel: the stored value, "" on a miss (absent or
\* expired key), an error when Redis does not answer
GetThreatIntel(ip) ==
    IF ~redisUp THEN [val |-> "", err |-> TRUE]
    ELSE IF cache[ip].exp > now THEN [val |-> cache[ip].val, err |-> FALSE]
    ELSE [val |-> "", err |-> FALSE]

\* the external provider's verdict (mocked in the code)
ProviderMalicious(ip) == ip = "1.2.3.4"

\* CachingProvider.CheckIP: the reputation, the cache and the provider calls
\* after the lookup; panic when the Redis client is nil
CheckIP(ip) ==
    IF rdb = "nil"
    THEN [panic |-> TRUE, cacheErr |-> TRUE,
          rep |-> [IsMalicious |-> FALSE, Score |-> "0", Source |-> ""],
          cache |-> cache, calls |-> providerCalls]
    ELSE LET cached == GetThreatIntel(ip)
             called == Append(providerCalls, [ip |-> ip, t |-> now])
         IN IF ~cached.err /\ cached.val # ""
            THEN [panic |-> FALSE, cacheErr |-> FALSE,
                  rep |-> [IsMalicious |-> TRUE, Score |-> "100", Source |-> "Cache"],
                  cache |-> cache, calls |-> providerCalls]
            ELSE IF ProviderMalicious(ip)
            THEN [panic |-> FALSE, cacheErr |-> cached.err,
                  rep |-> [IsMalicious |-> TRUE, Score |-> "100", Source |-> "MockDB"],
                  cache |-> SetThreatIntel(ip, "malicious", IntelTTL),
                  calls |-> called]
            ELSE [panic |-> FALSE, cacheErr |-> cached.err,
                  rep |-> [IsMalicious |-> FALSE, Score |-> "0", Source |-> ""],
                  cache |-> cache, calls |-> called]

\* geoip.Provider.Lookup: whether a location is returned
Lookup(ip) == geoDB

\* the GeoIP step of the enrichment handler
GeoEnrich(evt) ==
    IF Lookup(evt.source_ip)
    THEN [evt EXCEPT !.enrichment =
            MapSet(MapSet(MapSet(@, "src_geo_country", "country"),
                          "src_geo_city", "city"), "src_geo_iso", "iso")]
    ELSE evt

\* a handler that escalates to high instead of critical
EscalatedSeverity_High(sev) == SeverityHigh

\* the severity the enrichment handler gives an event of a malicious address
EscalatedSeverity(sev) == SeverityCritical

\* the intel step of the enrichment handler
IntelEnrich(evt, rep) ==
    IF rep.IsMalicious
    THEN [evt EXCEPT
            !.enrichment = MapSet(MapSet(@, "threat_intel_score", rep.Score),
                                  "threat_intel_source", rep.Source),
            !.severity = EscalatedSeverity(@),
            !.tags = Append(@, "malicious_ip")]
    ELSE evt

\* the subject the enrichment handler republishes an event on
EnrichedSubject(evt) ==
    TopicEventsEnriched \o Str(evt.severity) \o <<".">> \o Str(evt.source)

-----------------------------------------------------------------------------
(* Rule engine state *)

RulePool == {dummyRule, highRule, tagRule, brokenRule}

RuleIDs == {r.id : r \in RulePool}

\* an absent counter key
NoCounter == [val |-> 0, exp |-> 0]

\* the rule map of make(map[string]*compiledRule)
EmptyRules == [id \in {} |-> dummyRule]

\* no Evaluate call in progress, no Evaluate call finished yet
NoEval == [active |-> FALSE, evt |-> ZeroEvent, from |-> EmptyRules, view |-> EmptyRules]
NoResult == [done |-> FALSE, evt |-> ZeroEvent, from |-> EmptyRules,
             view |-> EmptyRules, matches |-> {}]

\* the interfaces the sensor captures on, one capture goroutine each
Interfaces == {"eth0", "eth1"}

\* the sensor after main has started the capture goroutines: ctx not
\* cancelled, every capture loop at its select, captureWg not yet waited for
SensorRunning == [cancelled |-> FALSE,
                  capture |-> [i \in Interfaces |-> [pc |-> "select", packet |-> ""]],
                  waited |-> FALSE]

\* no ProcessPacket call made yet
NoSubmit == [outcome |-> "none", full |-> FALSE, closed |-> FALSE, dropped |-> 0]

\* the keys "src->dst:port" of the flows seen by the beacon tracker
FlowKeys == {"10.0.0.5->1.2.3.4:443", "10.0.0.5->1.2.3.4:8080"}

\* a key without an entry in BeaconTracker.entries
NoBeaconEntry == [present |-> FALSE, FirstSeen |-> 0, LastSeen |-> 0,
                  Intervals |-> <<>>, RequestCount |-> 0, Score |-> 0]

\* no BeaconTracker.Check call made yet
NoBeaconCheck == [done |-> FALSE, key |-> "", match |-> FALSE, intervals |-> 0,
                  score |-> 0]

\* the sources seen by the port-scan tracker: one that walks the ports upward
\* and one that keeps contacting the same port
Scanner == "10.0.0.66"
OtherSource == "10.0.0.7"
ScanIPs == {Scanner, OtherSource}

\* make(map[uint16]bool)
NoPorts == [p \in {} |-> 0]

\* a source without an entry in PortScanTracker.entries
NoScanEntry == [present |-> FALSE, PortSet |-> {}, UniquePorts |-> 0,
                FirstSeen |-> 0, LastSeen |-> 0, Packets |-> 0, Score |-> 0]

ThreatTypePortScan == "port_scan"

\* no PortScanTracker.Check call made yet
NoScanCheck == [done |-> FALSE, ip |-> "", match |-> FALSE, type |-> "",
                severity |-> "", score |-> 0, counted |-> 0, recent |-> 0,
                evicted |-> {}]

\* the sources seen by the anomaly tracker
AnomalyIPs == {"10.0.0.9"}

\* a source without an entry in AnomalyTracker.entries
NoAnomalyEntry == [present |-> FALSE, PacketSizes |-> <<>>, BurstCount |-> 0,
                   TotalPackets |-> 0, FirstSeen |-> 0, LastSeen |-> 0,
                   Score |-> 0]

\* no AnomalyTracker.Check call made yet
NoAnomalyCheck == [done |-> FALSE, ip |-> "", emitted |-> FALSE, score |-> 0,
                   burst |-> FALSE, bursts |-> 0]

\* the breaker NewNATSProducer builds: closed, no count, lastFailure the zero
\* time.  lastFailure is kept as the time elapsed since it, which is all that
\* allowRequest reads of it; elapsed times beyond the timeout are not told apart
NewCircuitBreaker == [state |-> circuitClosed, failureCount |-> 0,
                      successCount |-> 0, sinceFailure |-> CBTimeout + CbTickSec]

\* no flush call made yet
NoFlush == [done |-> FALSE, before |-> circuitClosed, elapsed |-> 0,
            during |-> circuitClosed, attempted |-> FALSE, ok |-> FALSE]

\* InspectorStats after NewPacketInspector or ResetStats
ZeroStats == [events |-> 0, threats |-> 0]

\* no processPacket call finished yet, no captureLoop iteration finished yet
NoInspect == [done |-> FALSE, produced |-> 0, queued |-> 0, counted |-> 0]
NoCapture == [done |-> FALSE, hasIP |-> FALSE, full |-> FALSE, queued |-> FALSE,
              counted |-> FALSE]

-----------------------------------------------------------------------------
\* the bus clients: the backend services built on messaging.NewClient (the
\* archival, enrichment, correlation and SOAR services leave MaxReconnects
\* unset; the ingest service sets it), the sensor's producer, the agent
BusClients == {"backend", "ingest", "sensor", "agent"}

\* the value each client passes to nats.MaxReconnects
MaxReconnects(c) ==
    CASE c = "backend" -> 0
      [] c = "ingest"  -> IngestMaxReconnects
      [] c = "sensor"  -> MaxReconnectAttempts
      [] c = "agent"   -> -1

\* a connection nats.Connect has established
Connected == [status |-> "connected", attempts |-> 0]

\* the manager NewMTLSManager builds.  heap holds the tls.Config objects, each
\* the generation of its certificate and of its private key; tlsConfig is the
\* object m.tlsConfig points to; handed lists the objects GetTLSConfig
\* returned; disk is the generation of server.crt and of server.key
NewMTLSManager == [heap |-> <<[cert |-> 0, key |-> 0]>>, tlsConfig |-> 1,
                   handed |-> <<>>, disk |-> [cert |-> 0, key |-> 0],
                   pc |-> "idle", loaded |-> [cert |-> 0, key |-> 0],
                   rotations |-> 0]

\* no payload parsed yet.  crash is "" when the parser returned, else the
\* run-time error that ended the goroutine; name is the name the parser
\* extracted, a string of bytes
NoParse == [done |-> FALSE, parser |-> "", payload |-> <<>>, match |-> FALSE,
            name |-> <<>>, crash |-> "", method |-> <<>>]

\* the producer NewNATSProducer builds and Start sets running: an empty batch
\* channel, both goroutines running.  accepted, sent and counted tell what
\* became of the events: accepted by Publish, published to JetStream, lost in
\* a flush whose error was passed to recordFailure
NewNATSProducer == [chLen |-> 0, lastPublish |-> "", accepted |-> 0, sent |-> 0,
                    counted |-> 0, cancelled |-> FALSE, procReturned |-> FALSE,
                    workerReturned |-> FALSE, closed |-> FALSE]

\* the archival service before its shutdown signal
SinkRunning == [closed |-> FALSE, loopReturned |-> FALSE, exited |-> FALSE, atClose |-> {}]

Init ==
    /\ rawLog = <<>>
    /\ rawStored = {}
    /\ enrLog = <<>>
    /\ enrStored = {}
    /\ alertLog = <<>>
    /\ handled = [c \in Consumers |-> {}]
    /\ acked = [c \in Consumers |-> {}]
    /\ rdb \in {"nil", "conn"}
    /\ redisUp = (rdb = "conn")
    /\ cache = [ip \in IPs |-> NoKey]
    /\ now = 0
    /\ providerCalls = <<>>
    /\ enrichCrashed = FALSE
    /\ geoDB \in BOOLEAN
    /\ buffer = <<>>
    /\ store = <<>>
    /\ sinkWritten = {}
    /\ rules = LoadRules(<<dummyRule>>)
    /\ counters = [id \in RuleIDs |-> NoCounter]
    /\ loading = [rs |-> <<dummyRule>>, new |-> LoadRules(<<dummyRule>>), active |-> FALSE]
    /\ evalPc = NoEval
    /\ lastEval = NoResult
    /\ playbooks = <<>>
    /\ soarTasks = <<>>
    /\ execLog = {}
    /\ cmdLog = {}
    /\ httpLog = <<>>
    /\ workerPool = <<>>
    /\ poolClosed = FALSE
    /\ droppedCount = 0
    /\ processedCount = 0
    /\ lastSubmit = NoSubmit
    /\ stats = ZeroStats
    /\ lastInspect = NoInspect
    /\ eventChan = <<>>
    /\ lastCapture = NoCapture
    /\ pktTime = 0
    /\ beaconEntries = [k \in FlowKeys |-> NoBeaconEntry]
    /\ beaconArrivals = [k \in FlowKeys |-> <<>>]
    /\ lastBeacon = NoBeaconCheck
    /\ scanTime = 0
    /\ scanEntries = [ip \in ScanIPs |-> NoScanEntry]
    /\ portSeen = [ip \in ScanIPs |-> NoPorts]
    /\ scanCalls = 0
    /\ scanMatches = [ip \in ScanIPs |-> 0]
    /\ lastScan = NoScanCheck
    /\ anomalyTime = 0
    /\ anomalyEntries = [ip \in AnomalyIPs |-> NoAnomalyEntry]
    /\ lastAnomaly = NoAnomalyCheck
    /\ cb = NewCircuitBreaker
    /\ natsUp = TRUE
    /\ batchLen = 0
    /\ consecFailures = 0
    /\ lastFlush = NoFlush
    /\ sinkLife = SinkRunning
    /\ np = NewNATSProducer
    /\ conns = [c \in BusClients |-> Connected]
    /\ mtls = NewMTLSManager
    /\ lastParse = NoParse
    /\ sensorLife = SensorRunning

-----------------------------------------------------------------------------
(* Stream fabric *)

\* subjects bound to the events stream and to the alerts stream
EventsStreamSubjects == <<"events", ".", ">">>
AlertsStreamSubjects == <<"alerts", ".", ">">>

\* retention policy of the events stream
EventsRetention == "WorkQueue"

\* the stream's content after a consumer acknowledged message i: a work-queue
\* stream drops an acknowledged message, a limits stream keeps it
AfterAck(storedSet, i) ==
    IF EventsRetention = "WorkQueue" THEN storedSet \ {i} ELSE storedSet

\* messages of the events stream a durable consumer may still be handed
Deliverable(c, filter, log, storedSet) ==
    {i \in storedSet : i \notin handled[c] /\ SubjectMatches(filter, log[i].subject)}

\* the subject a producer publishes a canonical event on
RawSubject(evt) == TopicEventsRaw \o Str(evt.severity) \o <<".">> \o Str(evt.source)

\* what producers put on the raw subjects as the n-th message
RawMessages(n) ==
    {[subject |-> RawSubject(e), data |-> Marshal(e)] : e \in ProducedEvents(n)}
    \cup {[subject |-> HeartbeatTopic, data |-> HostInfoJSON],
          [subject |-> HeartbeatTopic, data |-> Garbage]}

\* a producer publishes a message on events.raw.>
PublishRaw ==
    /\ Len(rawLog) < MaxRaw
    /\ \E m \in RawMessages(Len(rawLog) + 1) :
        /\ rawLog' = Append(rawLog, m)
        /\ rawStored' = IF SubjectMatches(EventsStreamSubjects, m.subject)
                        THEN rawStored \cup {Len(rawLog) + 1} ELSE rawStored
    /\ UNCHANGED <<enrLog, enrStored, alertLog, handled, acked>>
    /\ UNCHANGED <<intelVars, sinkVars, rules, extVars>>

\* the enrichment worker's handler, run on raw message i; pubOk: whether the
\* publish buffer accepts the message
EnrichmentHandler(i, pubOk) ==
    LET u    == Unmarshal(rawLog[i].data)
        look == CheckIP(u.evt.source_ip)
        out  == IF u.evt.source_ip # ""
                THEN IntelEnrich(GeoEnrich(u.evt), look.rep)
                ELSE u.evt
        msg  == [subject |-> EnrichedSubject(out), data |-> Marshal(out), src |-> i,
                 cacheErr |-> u.evt.source_ip # "" /\ look.cacheErr]
    IN
    /\ ~enrichCrashed
    /\ i \in Deliverable(ConsumerEnrichment, TopicEventsRaw, rawLog, rawStored)
    /\ handled' = [handled EXCEPT ![ConsumerEnrichment] = @ \cup {i}]
    /\ acked' = [acked EXCEPT ![ConsumerEnrichment] = @ \cup {i}]
    /\ rawStored' = AfterAck(rawStored, i)
    /\ IF ~u.ok
       THEN UNCHANGED <<enrLog, enrStored, cache, providerCalls, enrichCrashed>>
       ELSE IF u.evt.source_ip # "" /\ look.panic
       THEN /\ enrichCrashed' = TRUE
            /\ UNCHANGED <<enrLog, enrStored, cache, providerCalls>>
       ELSE /\ IF u.evt.source_ip # ""
               THEN cache' = look.cache /\ providerCalls' = look.calls
               ELSE UNCHANGED <<cache, providerCalls>>
            /\ IF pubOk
               THEN /\ enrLog' = Append(enrLog, msg)
                    /\ enrStored' =
                         IF SubjectMatches(EventsStreamSubjects, msg.subject)
                         THEN enrStored \cup {Len(enrLog) + 1} ELSE enrStored
               ELSE UNCHANGED <<enrLog, enrStored>>
            /\ UNCHANGED enrichCrashed
    /\ UNCHANGED <<rawLog, alertLog, rdb, redisUp, now, geoDB, sinkVars, rules, extVars>>

\* the orders in which a range over the set S may visit it
Perms(S) ==
    {f \in [1..Cardinality(S) -> S] : \A a, b \in 1..Cardinality(S) : f[a] = f[b] => a = b}

\* a handler that leaves the alert's event ids unset
AlertEventIDs_Unset(evt, r) == <<>>

\* the list of event ids the correlation handler gives an alert
AlertEventIDs(evt, r) == <<evt.id>>

\* the alert the correlation handler raises for event evt and matched rule r;
\* n stands for the fresh id of utils.GenerateID
NewAlert(evt, r, n) ==
    [id |-> n, rule_id |-> r.id, title |-> r.name, severity |-> r.severity,
     status |-> AlertStatusNew, event_ids |-> AlertEventIDs(evt, r)]

\* the subject the correlation handler publishes an alert of rule r on
AlertSubject(alert, r) == TopicAlerts \o Str(alert.severity) \o <<".">> \o Str(r.id)

\* the alert log after the handler's loop over the matched rules in the given
\* order; okSet: the rules whose alert the publish buffer accepts
RECURSIVE PublishAlerts(_, _, _, _, _)
PublishAlerts(order, okSet, evt, i, log) ==
    IF order = <<>> THEN log
    ELSE LET r     == Head(order)
             alert == NewAlert(evt, r, Len(log) + 1)
             msg   == [subject |-> AlertSubject(alert, r), alert |-> alert,
                       src |-> i, rule |-> r.id]
         IN PublishAlerts(Tail(order), okSet, evt, i,
                          IF r \in okSet THEN Append(log, msg) ELSE log)

\* the correlation engine's handler, run on raw message i
CorrelationHandler(i) ==
    LET u == Unmarshal(rawLog[i].data)
        matchedRules == Evaluate(u.evt)
    IN
    /\ i \in Deliverable(ConsumerCorrelation, TopicEventsRaw, rawLog, rawStored)
    /\ handled' = [handled EXCEPT ![ConsumerCorrelation] = @ \cup {i}]
    /\ acked' = [acked EXCEPT ![ConsumerCorrelation] = @ \cup {i}]
    /\ rawStored' = AfterAck(rawStored, i)
    /\ IF ~u.ok
       THEN UNCHANGED alertLog
       ELSE \E order \in Perms(matchedRules), okSet \in SUBSET matchedRules :
               alertLog' = PublishAlerts(order, okSet, u.evt, i, alertLog)
    /\ UNCHANGED <<rawLog, enrLog, enrStored, intelVars, sinkVars, rules, extVars>>

\* ClickHouseSink.Flush; insertOk: whether the bulk insert succeeds
Flush(buf, rows, insertOk) ==
    IF Len(buf) = 0 THEN [buffer |-> buf, store |-> rows]
    ELSE [buffer |-> <<>>, store |-> IF insertOk THEN rows \o buf ELSE rows]

\* ClickHouseSink.Write
Write(evt, insertOk) ==
    LET appended == Append(buffer, evt)
    IN IF Len(appended) >= BatchSize
       THEN Flush(appended, store, insertOk)
       ELSE [buffer |-> appended, store |-> store]

\* the archival consumer's handler, run on enriched message j
ArchivalHandler(j, insertOk) ==
    LET u == Unmarshal(enrLog[j].data)
        w == Write(u.evt, insertOk)
    IN
    /\ ~sinkLife.exited
    /\ j \in Deliverable(ConsumerArchival, TopicEventsEnriched, enrLog, enrStored)
    /\ handled' = [handled EXCEPT ![ConsumerArchival] = @ \cup {j}]
    /\ acked' = [acked EXCEPT ![ConsumerArchival] = @ \cup {j}]
    /\ enrStored' = AfterAck(enrStored, j)
    /\ IF ~u.ok
       THEN UNCHANGED sinkVars
       ELSE /\ buffer' = w.buffer
            /\ store' = w.store
            /\ sinkWritten' = sinkWritten \cup {u.evt.id}
    /\ UNCHANGED <<rawLog, rawStored, enrLog, alertLog, intelVars, rules, extVars>>

\* ClickHouseSink.flushLoop: the ticker fires
FlushTick(insertOk) ==
    LET f == Flush(buffer, store, insertOk)
    IN /\ ~sinkLife.loopReturned /\ ~sinkLife.exited
       /\ buffer # <<>>
       /\ buffer' = f.buffer
       /\ store' = f.store
       /\ UNCHANGED <<fabricVars, intelVars, sinkWritten, rules, extVars>>

\* time passes
Tick ==
    /\ now + TickHours <= MaxTime
    /\ now' = now + TickHours
    /\ UNCHANGED <<fabricVars, rdb, redisUp, cache, providerCalls, enrichCrashed,
                   geoDB, sinkVars, rules, extVars>>

\* Redis stops or resumes answering commands
RedisFlap ==
    /\ rdb = "conn"
    /\ redisUp' = ~redisUp
    /\ UNCHANGED <<fabricVars, rdb, cache, now, providerCalls, enrichCrashed,
                   geoDB, sinkVars, rules, extVars>>

-----------------------------------------------------------------------------
(* Rule engine under reload.  LoadRules builds its map aside and stores it  *)
(* in e.rules with a plain assignment; Evaluate reads e.rules with a plain  *)
(* read.  Neither takes a lock, so a store during an evaluation is a data   *)
(* race: the evaluation may use the map it read before, the stored map, or  *)
(* the stored map with only part of its entries visible.                    *)

pipelineVars == <<fabricVars, intelVars, sinkVars>>

\* LoadRules is called with the list rs and builds newRules
LoadBegin(rs) ==
    /\ ~loading.active
    /\ loading' = [rs |-> rs, new |-> LoadRules(rs), active |-> TRUE]
    /\ UNCHANGED <<pipelineVars, ext2Vars, rules, counters, evalPc, lastEval, soarVars,
                   httpLog, dpiVars>>

\* LoadRules executes e.rules = newRules and returns
LoadStore ==
    /\ loading.active
    /\ rules' = loading.new
    /\ loading' = [loading EXCEPT !.active = FALSE]
    /\ IF evalPc.active
       THEN \/ UNCHANGED evalPc
            \/ \E v \in RacyViews(loading.new) :
                 evalPc' = [evalPc EXCEPT !.from = loading.new, !.view = v]
       ELSE UNCHANGED evalPc
    /\ UNCHANGED <<pipelineVars, ext2Vars, counters, lastEval, soarVars, httpLog, dpiVars>>

\* Evaluate is called on an event
EvalBegin(evt) ==
    /\ ~evalPc.active
    /\ evalPc' = [active |-> TRUE, evt |-> evt, from |-> rules, view |-> rules]
    /\ UNCHANGED <<pipelineVars, ext2Vars, rules, counters, loading, lastEval, soarVars,
                   httpLog, dpiVars>>

\* Evaluate has ranged over the map it read and returns its matches
EvalEnd ==
    /\ evalPc.active
    /\ lastEval' = [done |-> TRUE, evt |-> evalPc.evt, from |-> evalPc.from,
                    view |-> evalPc.view,
                    matches |-> EvaluateView(evalPc.view, evalPc.evt)]
    /\ evalPc' = NoEval
    /\ UNCHANGED <<pipelineVars, ext2Vars, rules, counters, loading, soarVars, httpLog, dpiVars>>

-----------------------------------------------------------------------------
(* SOAR *)

TopicCommands == <<"commands", ".", ">">>

\* retention policy of the alerts stream
AlertsRetention == "Limits"

\* the alert messages the alerts stream holds
AlertStored ==
    {k \in DOMAIN alertLog :
        /\ SubjectMatches(AlertsStreamSubjects, alertLog[k].subject)
        /\ (AlertsRetention = "WorkQueue" => k \notin acked[ConsumerSOAR])}

\* the actions the package registers in its init
BuiltinActions == {"block_ip", "slack_notify"}

\* an action a user of Register adds: an Action whose Execute can return an
\* error (neither built-in action ever does)
RegisteredActions == {"agent_command"}

\* the names in actions.Registry
Registry == BuiltinActions \cup RegisteredActions

\* the demo playbook of loadDummyPlaybooks
pb001 ==
    [id |-> "pb-001", name |-> "Auto Block Critical IPs", trigger |-> "critical",
     steps |-> <<"slack_notify", "block_ip">>]

\* a playbook whose first step can fail
pb002 ==
    [id |-> "pb-002", name |-> "Contain Host", trigger |-> "critical",
     steps |-> <<"agent_command", "block_ip">>]

\* a playbook with a step whose action is not registered
pb003 ==
    [id |-> "pb-003", name |-> "Quarantine", trigger |-> "critical",
     steps |-> <<"quarantine_host", "slack_notify">>]

\* a playbook for another severity
pb004 ==
    [id |-> "pb-004", name |-> "Notify High", trigger |-> "high",
     steps |-> <<"slack_notify">>]

\* the playbook lists an engine is loaded with
PlaybookSets == {<<pb001>>, <<pb002, pb001>>, <<pb003, pb004, pb001>>}

\* engine.NewEngine
NewEngine(pbs) ==
    /\ playbooks = <<>>
    /\ playbooks' = pbs
    /\ UNCHANGED <<pipelineVars, ext2Vars, rules, counters, engineVars, soarTasks, execLog,
                   cmdLog, httpLog, dpiVars>>

\* Engine.Execute: whether the playbook runs for the alert
ShouldRun(pb, alert) == pb.trigger = alert.severity

\* Engine.Execute: the index of the first playbook from index q on that runs
\* for the alert, Len(playbooks) + 1 when there is none
NextPlaybook(alert, q) ==
    LET cand == {x \in q..Len(playbooks) : ShouldRun(playbooks[x], alert)}
    IN IF cand = {} THEN Len(playbooks) + 1
       ELSE CHOOSE x \in cand : \A y \in cand : x <= y

\* the target address runPlaybook puts in the execution context
TargetIP(alert) == "1.2.3.4"

\* BlockIPAction.Execute: the command it hands to the publish buffer
BlockIPCommand(ip) ==
    [subject |-> TopicCommands \o <<"firewall-agent">>,
     action |-> "firewall_block", ip |-> ip]

\* the commands an action's Execute publishes
ActionCommands(name, ip) ==
    IF name = "block_ip" THEN {BlockIPCommand(ip)} ELSE {}

\* whether an action's Execute returns an error; actErr: whether the work of
\* a registered action goes wrong.  The built-in actions always return nil:
\* block_ip drops the error of its publish, slack_notify only logs
ActionFails(name, actErr) == name \in RegisteredActions /\ actErr

\* a step loop that goes on to the next step after a failed one
AfterStep_ContinueOnError(pos, alert, err) ==
    IF pos.step = Len(playbooks[pos.pb].steps)
    THEN [pos EXCEPT !.pb = NextPlaybook(alert, pos.pb + 1), !.step = 1]
    ELSE [pos EXCEPT !.step = @ + 1]

\* where the Execute goroutine stands after a step of runPlaybook: a failed
\* step breaks the step loop, and Execute goes on with its next playbook
AfterStep(pos, alert, err) ==
    IF err \/ pos.step = Len(playbooks[pos.pb].steps)
    THEN [pos EXCEPT !.pb = NextPlaybook(alert, pos.pb + 1), !.step = 1]
    ELSE [pos EXCEPT !.step = @ + 1]

\* the Execute goroutine at its start: src is the alert message it was started
\* for, 0 when Execute is called directly
StartExecute(alert, src) ==
    [alert |-> alert, src |-> src, pb |-> NextPlaybook(alert, 1), step |-> 1]

\* the alerts handed to Execute by a direct caller
ExecuteAlerts == {NewAlert(e, r, 1) : e \in ProducedEvents(1), r \in {dummyRule, highRule}}

\* Engine.Execute is called on an alert in a goroutine of its own
Execute(alert) ==
    /\ playbooks # <<>>
    /\ Len(soarTasks) < MaxTasks
    /\ soarTasks' = Append(soarTasks, StartExecute(alert, 0))
    /\ UNCHANGED <<pipelineVars, ext2Vars, rules, counters, engineVars, playbooks, execLog,
                   cmdLog, httpLog, dpiVars>>

\* the SOAR consumer's handler, run on alert message k: it acknowledges and
\* starts one Execute goroutine for the alert
SoarHandler(k) ==
    /\ playbooks # <<>>
    /\ Len(soarTasks) < MaxTasks
    /\ k \in Deliverable(ConsumerSOAR, TopicAlerts, alertLog, AlertStored)
    /\ handled' = [handled EXCEPT ![ConsumerSOAR] = @ \cup {k}]
    /\ acked' = [acked EXCEPT ![ConsumerSOAR] = @ \cup {k}]
    /\ soarTasks' = Append(soarTasks, StartExecute(alertLog[k].alert, k))
    /\ UNCHANGED <<rawLog, rawStored, enrLog, enrStored, alertLog, intelVars,
                   sinkVars, rules, counters, engineVars, playbooks, execLog,
                   cmdLog, httpLog, dpiVars, ext2Vars>>

\* whether the Execute goroutine t has returned
TaskDone(t) == soarTasks[t].pb > Len(playbooks)

\* one iteration of the step loop of runPlaybook in the Execute goroutine t;
\* pubOk: whether the publish buffer accepts a command
ExecuteStep(t, pubOk, actErr) ==
    /\ t \in DOMAIN soarTasks
    /\ ~TaskDone(t)
    /\ LET pos    == soarTasks[t]
           alert  == pos.alert
           pb     == playbooks[pos.pb]
           name   == pb.steps[pos.step]
           exists == name \in Registry
           err    == exists /\ ActionFails(name, actErr)
       IN /\ execLog' =
                IF exists
                THEN execLog \cup {[task |-> t, pb |-> pb.id, step |-> pos.step,
                                    action |-> name, err |-> err]}
                ELSE execLog
          /\ cmdLog' =
                IF exists /\ pubOk
                THEN cmdLog \cup {[task |-> t, cmd |-> c] :
                                      c \in ActionCommands(name, TargetIP(alert))}
                ELSE cmdLog
          /\ soarTasks' = [soarTasks EXCEPT ![t] = AfterStep(pos, alert, err)]
    /\ UNCHANGED <<pipelineVars, ext2Vars, rules, counters, engineVars, playbooks, httpLog,
                   dpiVars>>

-----------------------------------------------------------------------------
(* HTTP ingest *)

\* bodies posted to /api/v1/events: bytes that are not JSON, and JSON objects
\* with or without an id, a timestamp and a source
PostBodies ==
    {[valid |-> FALSE, id |-> "", timestamp |-> "", source |-> "", severity |-> ""]}
    \cup {[valid |-> TRUE, id |-> id, timestamp |-> ts, source |-> src, severity |-> sev] :
            id \in {"", "P1"}, ts \in {"", "2024-01-01T00:00:00Z"},
            src \in {"", "firewall"}, sev \in {SeverityInfo, SeverityCritical}}

EventStatusNew == "new"

\* time.Now().UTC() at the moment of the request
TimeNowUTC == "now"

\* normalizer.NormalizeAgentEvent of a body, as the n-th event of the bus
NormalizeAgentEvent(body, n) ==
    IF ~body.valid
    THEN [err |-> TRUE, evt |-> ZeroEvent, timestamp |-> "", status |-> ""]
    ELSE [err |-> FALSE,
          evt |-> [id |-> EventId(n),
                   source |-> IF body.source # "" THEN body.source ELSE "agent",
                   source_ip |-> "", severity |-> body.severity,
                   tags |-> <<>>, enrichment |-> {}],
          timestamp |-> TimeNowUTC,
          status |-> EventStatusNew]

\* EventHandler.HandleHTTPEvent; pubOk: whether the publish buffer accepts the
\* event (it refuses when it is full)
HandleHTTPEvent(body, pubOk) ==
    LET n    == Len(rawLog) + 1
        norm == NormalizeAgentEvent(body, n)
        msg  == [subject |-> RawSubject(norm.evt), data |-> Marshal(norm.evt)]
        answer(code, full, raw) ==
            Append(httpLog, [body |-> body, code |-> code, full |-> full, raw |-> raw,
                             id |-> norm.evt.id, timestamp |-> norm.timestamp,
                             status |-> norm.status])
    IN
    /\ Len(httpLog) < MaxPosts
    /\ Len(rawLog) < MaxRaw
    /\ IF norm.err
       THEN /\ httpLog' = answer(400, FALSE, 0)
            /\ UNCHANGED <<rawLog, rawStored>>
       ELSE IF ~pubOk
       THEN /\ httpLog' = answer(500, TRUE, 0)
            /\ UNCHANGED <<rawLog, rawStored>>
       ELSE /\ httpLog' = answer(202, FALSE, n)
            /\ rawLog' = Append(rawLog, msg)
            /\ rawStored' = IF SubjectMatches(EventsStreamSubjects, msg.subject)
                            THEN rawStored \cup {n} ELSE rawStored
    /\ UNCHANGED <<enrLog, enrStored, alertLog, handled, acked, intelVars, sinkVars,
                   rules, counters, engineVars, soarVars, dpiVars, ext2Vars>>

-----------------------------------------------------------------------------
(* Packet inspector *)

Packets == {"p1", "p2"}

\* the sensor process died of a panic in ProcessPacket
InspectorPanicked == lastSubmit.outcome = "panic"

\* PacketInspector.ProcessPacket: a select between the send on workerPool and
\* a default branch.  A send on a closed channel panics, whether or not the
\* queue is full
submit(p) ==
    /\ IF poolClosed
       THEN /\ lastSubmit' = [outcome |-> "panic", full |-> Len(workerPool) = QueueCap,
                              closed |-> TRUE, dropped |-> 0]
            /\ UNCHANGED <<workerPool, droppedCount>>
       ELSE IF Len(workerPool) < QueueCap
       THEN /\ workerPool' = Append(workerPool, p)
            /\ lastSubmit' = [outcome |-> "queued", full |-> FALSE, closed |-> FALSE,
                              dropped |-> 0]
            /\ UNCHANGED droppedCount
       ELSE /\ droppedCount' = droppedCount + 1
            /\ lastSubmit' = [outcome |-> "dropped", full |-> TRUE, closed |-> FALSE,
                              dropped |-> 1]
            /\ UNCHANGED workerPool
    /\ UNCHANGED <<poolClosed, processedCount>>

\* a ProcessPacket call, whoever makes it
ProcessPacket(p) ==
    /\ ~InspectorPanicked
    /\ processedCount + droppedCount + Len(workerPool) < MaxPackets
    /\ submit(p)
    /\ UNCHANGED <<pipelineVars, sensorVars, detVars, rules, counters, engineVars,
                   soarVars, httpLog>>

\* what inspectPacket can return for one packet: the numbers of NetworkEvents
\* and of threat matches in its InspectionResult
InspectResults == {[events |-> e, threats |-> t] : e \in 0..1, t \in 0..1}

\* PacketInspector.processPacket on n jobs that each produce the result res:
\* the events and the threats of a result are counted in stats and then
\* dropped with the result; nothing is sent on a channel and no drop counter
\* is touched
processPacket(n, res) ==
    /\ processedCount' = processedCount + n
    /\ stats' = [events  |-> stats.events + n * res.events,
                 threats |-> stats.threats + n * res.threats]
    /\ lastInspect' = IF n = 0 THEN lastInspect
                      ELSE [done |-> TRUE, produced |-> res.events + res.threats,
                            queued |-> 0, counted |-> 0]

\* PacketInspector.worker: a worker takes a job and processes it
Worker(res) ==
    /\ ~InspectorPanicked
    /\ ~poolClosed
    /\ workerPool # <<>>
    /\ workerPool' = Tail(workerPool)
    /\ processPacket(1, res)
    /\ UNCHANGED <<pipelineVars, rules, counters, engineVars, soarVars, httpLog,
                   poolClosed, droppedCount, lastSubmit, eventChan, lastCapture,
                   detVars>>

\* PacketInspector.Stop: cancel, close(workerPool), wait for the workers, which
\* process n more jobs before they see the cancellation
Stop(n, res) ==
    /\ ~InspectorPanicked
    /\ ~poolClosed
    /\ n \in 0..Len(workerPool)
    /\ poolClosed' = TRUE
    /\ workerPool' = SubSeq(workerPool, n + 1, Len(workerPool))
    /\ processPacket(n, res)
    /\ UNCHANGED <<pipelineVars, rules, counters, engineVars, soarVars, httpLog,
                   droppedCount, lastSubmit, eventChan, lastCapture, detVars>>

\* PacketInspector.ResetStats
ResetStats ==
    /\ ~InspectorPanicked
    /\ processedCount' = 0
    /\ droppedCount' = 0
    /\ stats' = ZeroStats
    /\ UNCHANGED <<pipelineVars, rules, counters, engineVars, soarVars, httpLog,
                   workerPool, poolClosed, lastSubmit, lastInspect, eventChan,
                   lastCapture, detVars>>

\* One iteration of Inspector.captureLoop: an event is built from the decoded
\* layers and, if the packet has an IP layer, sent on eventChan in a select
\* with an empty default branch
CaptureLoop(hasIP) ==
    /\ IF hasIP /\ Len(eventChan) < EventChanCap
       THEN eventChan' = Append(eventChan, "evt")
       ELSE UNCHANGED eventChan
    /\ lastCapture' = [done |-> TRUE, hasIP |-> hasIP,
                       full |-> Len(eventChan) = EventChanCap,
                       queued |-> hasIP /\ Len(eventChan) < EventChanCap,
                       counted |-> FALSE]
    /\ UNCHANGED <<pipelineVars, rules, counters, engineVars, soarVars, httpLog,
                   dpiVars, stats, lastInspect, detVars>>

\* DBHandler's loop takes one event from the channel
EventConsumer ==
    /\ eventChan # <<>>
    /\ eventChan' = Tail(eventChan)
    /\ UNCHANGED <<pipelineVars, rules, counters, engineVars, soarVars, httpLog,
                   dpiVars, stats, lastInspect, lastCapture, detVars>>

-----------------------------------------------------------------------------
(* Sensor shutdown.  main cancels ctx, calls inspector.Stop, which closes    *)
(* workerPool, and only then waits for the capture goroutines.  A capture    *)
(* goroutine loops over a select between ctx.Done() and the packet source    *)
(* and calls ProcessPacket for each packet it receives.                      *)

\* everything but the inspector and the shutdown
notShutdownVars == <<pipelineVars, rules, counters, engineVars, soarVars, httpLog,
                     sensorVars, pktTime, beaconVars, scanVars, anomalyVars,
                     breakerVars, sinkLife, np, conns, mtls, lastParse>>

\* main receives the signal and cancels ctx
Cancel ==
    /\ ~InspectorPanicked
    /\ ~sensorLife.cancelled
    /\ sensorLife' = [sensorLife EXCEPT !.cancelled = TRUE]
    /\ UNCHANGED <<notShutdownVars, dpiVars>>

\* main calls inspector.Stop() after the cancel
MainStop(n, res) ==
    /\ sensorLife.cancelled
    /\ Stop(n, res)

\* captureTraffic's select takes a packet from the packet source.  With ctx
\* cancelled and a packet waiting both cases are ready, and select picks
\* either
CaptureReceive(i, p) ==
    /\ ~InspectorPanicked
    /\ sensorLife.capture[i].pc = "select"
    /\ processedCount + droppedCount + Len(workerPool) < MaxPackets
    /\ sensorLife' = [sensorLife EXCEPT !.capture[i] = [pc |-> "submit", packet |-> p]]
    /\ UNCHANGED <<notShutdownVars, dpiVars>>

\* captureTraffic hands the packet it received to ProcessPacket and goes
\* back to its select
CaptureSubmit(i) ==
    /\ ~InspectorPanicked
    /\ sensorLife.capture[i].pc = "submit"
    /\ submit(sensorLife.capture[i].packet)
    /\ sensorLife' = [sensorLife EXCEPT !.capture[i] = [pc |-> "select", packet |-> ""]]
    /\ UNCHANGED notShutdownVars

\* captureTraffic's select takes ctx.Done() and the goroutine returns
CaptureReturn(i) ==
    /\ ~InspectorPanicked
    /\ sensorLife.cancelled
    /\ sensorLife.capture[i].pc = "select"
    /\ sensorLife' = [sensorLife EXCEPT !.capture[i] = [pc |-> "returned", packet |-> ""]]
    /\ UNCHANGED <<notShutdownVars, dpiVars>>

\* main's captureWg.Wait() returns, after inspector.Stop() has
CaptureWait ==
    /\ ~InspectorPanicked
    /\ poolClosed
    /\ ~sensorLife.waited
    /\ \A i \in Interfaces : sensorLife.capture[i].pc = "returned"
    /\ sensorLife' = [sensorLife EXCEPT !.waited = TRUE]
    /\ UNCHANGED <<notShutdownVars, dpiVars>>

-----------------------------------------------------------------------------
(* Threat detector: beacon tracker.  Its timestamps and durations are in     *)
(* ticks of 100 ms.                                                         *)

\* everything outside the threat detector and the producer
coreVars == <<pipelineVars, rules, counters, engineVars, soarVars, httpLog,
              dpiVars, sensorVars, lifeVars>>

Range(q) == {q[k] : k \in DOMAIN q}

RECURSIVE SumSeq(_)
SumSeq(q) == IF q = <<>> THEN 0 ELSE Head(q) + SumSeq(Tail(q))

RECURSIVE SumSquares(_)
SumSquares(q) == IF q = <<>> THEN 0 ELSE Head(q) * Head(q) + SumSquares(Tail(q))

\* q[len(q)-n:] when q is longer than n, else q
KeepLast(q, n) == IF Len(q) > n THEN SubSeq(q, Len(q) - n + 1, Len(q)) ELSE q

\* BeaconTracker.analyzeIntervals, kept exact: with n intervals of sum S and
\* sum of squares Q, avg = S/n and stdDev^2 = (n*Q - S*S)/n^2
analyzeIntervals(intervals) ==
    [n   |-> Len(intervals),
     sum |-> SumSeq(intervals),
     dev |-> Len(intervals) * SumSquares(intervals)
                - SumSeq(intervals) * SumSeq(intervals)]

\* the jitter analyzeIntervals returns is time.Duration(stdDev/avg), a whole
\* number: 0 when there is no interval sum or stdDev < avg, at least 1 otherwise
JitterIsZero(a) == a.sum = 0 \/ a.dev < a.sum * a.sum

\* stdDev < limit (ticks)
StdDevBelow(a, limit) == a.dev < limit * limit * a.n * a.n

\* BeaconTracker.calculateBeaconScore
calculateBeaconScore(a, requestCount) ==
    (IF JitterIsZero(a) THEN 40 ELSE 0)
  + (IF StdDevBelow(a, 1) THEN 30 ELSE IF StdDevBelow(a, 5) THEN 20 ELSE 0)
  + (IF requestCount > 100 THEN 20 ELSE IF requestCount > 50 THEN 10 ELSE 0)

\* the guard of the analysis: enough intervals recorded
EnoughIntervals_AnyInterval(entry) == Len(entry.Intervals) >= 1
EnoughIntervals(entry) == Len(entry.Intervals) >= MinIntervals

\* BeaconTracker.cleanOldEntries
cleanOldBeacons(entries, ts) ==
    [k \in FlowKeys |->
        IF entries[k].present /\ entries[k].LastSeen < ts - BeaconWindow * 2
        THEN NoBeaconEntry ELSE entries[k]]

\* packets given to the beacon tracker so far
BeaconPackets ==
    LET RECURSIVE Count(_)
        Count(ks) == IF ks = {} THEN 0
                     ELSE LET k == CHOOSE x \in ks : TRUE
                          IN  Len(beaconArrivals[k]) + Count(ks \ {k})
    IN  Count(FlowKeys)

\* BeaconTracker.Check on a packet of flow key, BeaconGap after the last one
BeaconCheck(key) ==
    LET ts  == pktTime + BeaconGap
        old == beaconEntries[key]
        e0  == IF old.present THEN old
               ELSE [present |-> TRUE, FirstSeen |-> ts, LastSeen |-> ts,
                     Intervals |-> <<>>, RequestCount |-> 0, Score |-> 0]
        e1  == IF e0.FirstSeen # e0.LastSeen
               THEN [e0 EXCEPT !.Intervals =
                        KeepLast(Append(@, ts - e0.LastSeen), MaxIntervals)]
               ELSE e0
        e2  == [e1 EXCEPT !.LastSeen = ts, !.RequestCount = @ + 1]
        e3  == IF EnoughIntervals(e2)
               THEN [e2 EXCEPT !.Score =
                        calculateBeaconScore(analyzeIntervals(e2.Intervals),
                                             e2.RequestCount)]
               ELSE e2
        match   == EnoughIntervals(e2) /\ e3.Score >= BeaconMinScore
        entries == [beaconEntries EXCEPT ![key] = e3]
    IN  /\ BeaconPackets < MaxBeaconPackets
        /\ pktTime' = ts
        /\ beaconArrivals' = [beaconArrivals EXCEPT ![key] = Append(@, ts)]
        /\ beaconEntries' = IF match THEN entries ELSE cleanOldBeacons(entries, ts)
        /\ lastBeacon' = [done |-> TRUE, key |-> key, match |-> match,
                          intervals |-> Len(e3.Intervals), score |-> e3.Score]
        /\ UNCHANGED <<coreVars, scanVars, anomalyVars, breakerVars>>

\* no packet reaches the sensor for QuietTicks
Quiet ==
    /\ pktTime < QuietTicks
    /\ pktTime' = pktTime + QuietTicks
    /\ UNCHANGED <<coreVars, beaconVars, scanVars, anomalyVars, breakerVars>>

-----------------------------------------------------------------------------
(* Threat detector: port-scan tracker.  Its timestamps are in ms. *)

\* everything outside the port-scan tracker
notScanVars == <<coreVars, pktTime, beaconVars, anomalyVars, breakerVars>>

MinOf(a, b) == IF a < b THEN a ELSE b

\* the multiplier switch compares the int threshold with the strings "low"
\* and "high", so no case is ever taken and the multiplier stays 1.0
ScanThreshold == PortThreshold * 1

\* the score of an entry above the threshold:
\* int(min(100, UniquePorts*2 + UniquePorts/(elapsed seconds + 1) * 10))
ScanScore(entry) ==
    MinOf(100, entry.UniquePorts * 2
               + (10000 * entry.UniquePorts)
                    \div (entry.LastSeen - entry.FirstSeen + 1000))

\* PortScanTracker.cleanOldEntries
cleanOldScans(entries, ts) ==
    [ip \in ScanIPs |->
        IF entries[ip].present /\ entries[ip].LastSeen < ts - PortScanWindow * 2
        THEN NoScanEntry ELSE entries[ip]]

\* the destination port of the next packet of a source
NextPort(ip) ==
    IF ip = Scanner THEN scanEntries[ip].UniquePorts + 1 ELSE 80

\* PortScanTracker.Check on a packet of source ip, gap ms after the last one
PortScanCheck(ip, gap) ==
    LET ts   == scanTime + gap
        port == NextPort(ip)
        old  == scanEntries[ip]
        e0   == IF old.present THEN old
                ELSE [present |-> TRUE, PortSet |-> {}, UniquePorts |-> 0,
                      FirstSeen |-> ts, LastSeen |-> ts, Packets |-> 0,
                      Score |-> 0]
        e1   == IF port \notin e0.PortSet
                THEN [e0 EXCEPT !.PortSet = @ \cup {port}, !.UniquePorts = @ + 1]
                ELSE e0
        e2   == [e1 EXCEPT !.LastSeen = ts, !.Packets = @ + 1]
        match == e2.UniquePorts > ScanThreshold
        e3   == IF match THEN [e2 EXCEPT !.Score = ScanScore(e2)] ELSE e2
        entries == [scanEntries EXCEPT ![ip] = e3]
        \* a call that returns a match returns before cleanOldEntries
        after == IF match THEN entries ELSE cleanOldScans(entries, ts)
        seen  == [p \in (DOMAIN portSeen[ip]) \cup {port} |->
                     IF p = port THEN ts ELSE portSeen[ip][p]]
    IN  /\ scanCalls < MaxScanPackets
        /\ gap = ScanQuietMs => scanTime < ScanQuietMs
        /\ ip = OtherSource => scanTime < MaxOtherTime
        /\ scanTime' = ts
        /\ scanCalls' = scanCalls + 1
        /\ scanEntries' = after
        /\ portSeen' = [portSeen EXCEPT ![ip] = seen]
        /\ scanMatches' = [scanMatches EXCEPT ![ip] = IF match THEN @ + 1 ELSE @]
        /\ lastScan' =
              [done |-> TRUE, ip |-> ip, match |-> match,
               type |-> IF match THEN ThreatTypePortScan ELSE "",
               severity |-> IF match THEN SeverityHigh ELSE "",
               score |-> IF match THEN e3.Score ELSE 0,
               counted |-> e2.UniquePorts,
               recent |-> Cardinality({p \in e2.PortSet :
                                          seen[p] >= ts - PortScanWindow}),
               evicted |-> {[ip |-> i, last |-> entries[i].LastSeen] :
                              i \in {j \in ScanIPs :
                                       entries[j].present /\ ~after[j].present}}]
        /\ UNCHANGED notScanVars

-----------------------------------------------------------------------------
(* Threat detector: anomaly tracker.  Its timestamps are in ms, packet sizes *)
(* in bytes.                                                                *)

\* everything outside the anomaly tracker
notAnomalyVars == <<coreVars, pktTime, beaconVars, scanVars, breakerVars>>

\* the packet sizes a source sends: each packet has the size of the one before
\* it, the next larger size of the ladder, or is oversized
SizeLadder == <<10, 25, 60, 150, 350, 800, 1500>>
OversizedPacket == 70000

AnomalySizes == Range(SizeLadder) \cup {OversizedPacket}

NextSizes(entry) ==
    IF entry.PacketSizes = <<>> THEN {SizeLadder[1]}
    ELSE LET last == entry.PacketSizes[Len(entry.PacketSizes)]
         IN  {last, OversizedPacket}
             \cup {SizeLadder[k + 1] : k \in {j \in 1..(Len(SizeLadder) - 1) :
                                                 SizeLadder[j] = last}}

\* packetSize > avg + 3*stdDev over the sizes of the entry, kept exact: with n
\* sizes of sum S and sum of squares Q, avg = S/n and stdDev = sqrt(n*Q - S*S)/n
IsBurst(sizes, packetSize) ==
    LET n == Len(sizes)
        S == SumSeq(sizes)
        Q == SumSquares(sizes)
    IN  /\ packetSize * n - S > 0
        /\ (packetSize * n - S) * (packetSize * n - S) > 9 * (n * Q - S * S)

\* the number of bursts from which detectAnomaly reports the entry
ReportsAt(burstCount) == burstCount > 5

\* AnomalyTracker.detectAnomaly: the entry after the call and whether it was
\* returned (nil otherwise)
detectAnomaly(entry, packetSize) ==
    IF Len(entry.PacketSizes) < MinSizes
    THEN [anomaly |-> FALSE, burst |-> FALSE, entry |-> entry]
    ELSE IF packetSize > MaxPacketSize
    THEN [anomaly |-> TRUE, burst |-> FALSE, entry |-> entry]
    ELSE IF IsBurst(entry.PacketSizes, packetSize)
    THEN LET counted == [entry EXCEPT !.BurstCount = @ + 1]
         IN  IF ReportsAt(counted.BurstCount)
             THEN [anomaly |-> TRUE, burst |-> TRUE,
                   entry |-> [counted EXCEPT !.Score = 80]]
             ELSE [anomaly |-> FALSE, burst |-> TRUE, entry |-> counted]
    ELSE [anomaly |-> FALSE, burst |-> FALSE, entry |-> entry]

\* AnomalyTracker.cleanOldEntries
cleanOldAnomalies(entries, ts) ==
    [ip \in AnomalyIPs |->
        IF entries[ip].present /\ entries[ip].LastSeen < ts - AnomalyWindow * 2
        THEN NoAnomalyEntry ELSE entries[ip]]

\* AnomalyTracker.Check on a packet of source ip, AnomalyGapMs after the last
\* one.  The anomaly returned is the entry itself, so the score its caller
\* reads is the one Check stored after detectAnomaly returned
AnomalyCheck(ip, packetSize) ==
    LET ts  == anomalyTime + AnomalyGapMs
        old == anomalyEntries[ip]
        e0  == IF old.present THEN old
               ELSE [NoAnomalyEntry EXCEPT !.present = TRUE, !.FirstSeen = ts]
        e1  == [e0 EXCEPT !.PacketSizes = KeepLast(Append(@, packetSize), MaxSizes),
                          !.TotalPackets = @ + 1,
                          !.LastSeen = ts]
        d   == detectAnomaly(e1, packetSize)
        e2  == IF d.anomaly
               THEN [d.entry EXCEPT !.Score =
                        MinOf(100, (d.entry.TotalPackets + 10 * d.entry.Score) \div 10)]
               ELSE d.entry
    IN  /\ old.TotalPackets < MaxAnomalyPackets
        /\ packetSize \in NextSizes(old)
        /\ old.present =>
              old.PacketSizes[Len(old.PacketSizes)] <= MaxPacketSize
        /\ anomalyTime' = ts
        /\ anomalyEntries' =
              cleanOldAnomalies([anomalyEntries EXCEPT ![ip] = e2], ts)
        /\ lastAnomaly' = [done |-> TRUE, ip |-> ip, emitted |-> d.anomaly,
                           score |-> IF d.anomaly THEN e2.Score ELSE 0,
                           burst |-> d.burst, bursts |-> e2.BurstCount]
        /\ UNCHANGED notAnomalyVars

-----------------------------------------------------------------------------
(* The sensor's NATS producer and its circuit breaker.  Times are in seconds. *)

\* everything outside the producer
notBreakerVars == <<coreVars, pktTime, beaconVars, scanVars, anomalyVars>>

\* CircuitBreaker.allowRequest: its answer and the breaker after the call
allowRequest_NoProbe(b) ==
    CASE b.state = circuitClosed   -> [ok |-> TRUE, cb |-> b]
      [] b.state = circuitHalfOpen ->
            [ok |-> b.successCount < RecoveryThreshold, cb |-> b]
      [] b.state = circuitOpen     -> [ok |-> FALSE, cb |-> b]
allowRequest(b) ==
    CASE b.state = circuitClosed   -> [ok |-> TRUE, cb |-> b]
      [] b.state = circuitHalfOpen ->
            [ok |-> b.successCount < RecoveryThreshold, cb |-> b]
      [] b.state = circuitOpen     ->
            IF b.sinceFailure > CBTimeout
            THEN [ok |-> TRUE,
                  cb |-> [b EXCEPT !.state = circuitHalfOpen,
                                   !.successCount = 0,
                                   !.failureCount = 0]]
            ELSE [ok |-> FALSE, cb |-> b]

\* CircuitBreaker.recordFailure
recordFailure_AboveThreshold(b) ==
    LET c == [b EXCEPT !.failureCount = @ + 1, !.sinceFailure = 0]
    IN  IF c.failureCount > CBThreshold
        THEN [c EXCEPT !.state = circuitOpen] ELSE c
recordFailure(b) ==
    LET c == [b EXCEPT !.failureCount = @ + 1, !.sinceFailure = 0]
    IN  IF c.failureCount >= CBThreshold
        THEN [c EXCEPT !.state = circuitOpen] ELSE c

\* CircuitBreaker.recordSuccess
recordSuccess(b) ==
    LET c == [b EXCEPT !.successCount = @ + 1, !.failureCount = 0]
    IN  IF c.state = circuitHalfOpen /\ c.successCount >= RecoveryThreshold
        THEN [c EXCEPT !.state = circuitClosed] ELSE c

\* NATSProducer.sendBatch: the publish, retried up to three times on a
\* retryable error, succeeds exactly if JetStream accepts it
sendBatch == natsUp

\* NATSProducer.flush with n events in the buffer.  A rejected flush keeps the
\* buffer; an admitted one empties it before the publish, whatever its outcome
flush(n) ==
    IF n = 0
    THEN /\ batchLen' = n
         /\ UNCHANGED <<cb, consecFailures, lastFlush>>
    ELSE LET a == allowRequest(cb)
         IN  /\ lastFlush' = [done |-> TRUE, before |-> cb.state,
                              elapsed |-> cb.sinceFailure, during |-> a.cb.state,
                              attempted |-> a.ok, ok |-> a.ok /\ sendBatch]
             /\ IF ~a.ok
                THEN /\ cb' = a.cb
                     /\ batchLen' = n
                     /\ UNCHANGED consecFailures
                ELSE /\ batchLen' = 0
                     /\ IF sendBatch
                        THEN /\ a.cb.successCount < MaxSuccess
                             /\ cb' = recordSuccess(a.cb)
                             /\ consecFailures' = 0
                        ELSE /\ consecFailures < MaxConsec
                             /\ cb' = recordFailure(a.cb)
                             /\ consecFailures' = consecFailures + 1

\* NATSProducer.batchProcessor on one event: append it and flush a full batch
BatchEvent ==
    /\ batchLen < MaxBuf
    /\ IF batchLen + 1 >= ProducerBatchSize
       THEN flush(batchLen + 1)
       ELSE /\ batchLen' = batchLen + 1
            /\ UNCHANGED <<cb, consecFailures, lastFlush>>
    /\ UNCHANGED <<notBreakerVars, natsUp>>

\* NATSProducer.flushWorker on one tick: flush a non-empty buffer
FlushTicker ==
    /\ batchLen > 0
    /\ flush(batchLen)
    /\ UNCHANGED <<notBreakerVars, natsUp>>

\* time passes
CbTick ==
    /\ cb.sinceFailure <= CBTimeout
    /\ cb' = [cb EXCEPT !.sinceFailure = @ + CbTickSec]
    /\ UNCHANGED <<notBreakerVars, natsUp, batchLen, consecFailures, lastFlush>>

\* JetStream stops or resumes accepting publishes
NatsFlap ==
    /\ natsUp' = ~natsUp
    /\ UNCHANGED <<notBreakerVars, cb, batchLen, consecFailures, lastFlush>>

-----------------------------------------------------------------------------
(* The sensor's producer from Publish to Stop.  Publish offers the event to *)
(* the batch channel; batchProcessor moves events from the channel to the   *)
(* batch buffer and flushes a full batch; flushWorker flushes on a tick;    *)
(* Stop cancels the context, flushes the buffer once, waits for the two     *)
(* goroutines and closes the connection.  Events are not told apart: the    *)
(* model counts them.                                                       *)

notProducerVars == <<pipelineVars, rules, counters, engineVars, soarVars, httpLog,
                     dpiVars, sensorVars, pktTime, beaconVars, scanVars,
                     anomalyVars, sinkLife, conns, mtls, lastParse, sensorLife>>

\* what a flush of n events did with them: published them, or lost them with
\* its error handed to NATSProducer.recordFailure, or left them in the buffer
Accounted(p, n) ==
    [p EXCEPT !.sent = @ + (IF lastFlush'.ok THEN n ELSE 0),
              !.counted = @ + (IF lastFlush'.attempted /\ ~lastFlush'.ok THEN n ELSE 0)]

\* NATSProducer.Publish: a non-blocking send on batchCh
Publish ==
    /\ ~np.closed
    /\ np.accepted < MaxAccepted
    /\ np' = IF np.chLen < BatchChCap
             THEN [np EXCEPT !.chLen = @ + 1, !.accepted = @ + 1,
                             !.lastPublish = "accepted"]
             ELSE [np EXCEPT !.lastPublish = "dropped"]
    /\ UNCHANGED <<notProducerVars, breakerVars>>

\* NATSProducer.batchProcessor receives one event from batchCh
BatchProcessor ==
    /\ ~np.procReturned
    /\ np.chLen > 0
    /\ batchLen < MaxBacklog
    /\ IF batchLen + 1 >= ProducerBatchSize
       THEN /\ flush(batchLen + 1)
            /\ np' = Accounted([np EXCEPT !.chLen = @ - 1], batchLen + 1)
       ELSE /\ batchLen' = batchLen + 1
            /\ np' = [np EXCEPT !.chLen = @ - 1]
            /\ UNCHANGED <<cb, consecFailures, lastFlush>>
    /\ UNCHANGED <<notProducerVars, natsUp>>

\* NATSProducer.flushWorker on one tick
FlushWorker ==
    /\ ~np.workerReturned
    /\ batchLen > 0
    /\ flush(batchLen)
    /\ np' = Accounted(np, batchLen)
    /\ UNCHANGED <<notProducerVars, natsUp>>

\* NATSProducer.Stop up to wg.Wait: cancel, close(stopCh), one flush
StopBegin ==
    /\ ~np.cancelled
    /\ IF batchLen > 0
       THEN /\ flush(batchLen)
            /\ np' = Accounted([np EXCEPT !.cancelled = TRUE], batchLen)
       ELSE /\ np' = [np EXCEPT !.cancelled = TRUE]
            /\ UNCHANGED <<cb, batchLen, consecFailures, lastFlush>>
    /\ UNCHANGED <<notProducerVars, natsUp>>

\* batchProcessor's select takes ctx.Done and the goroutine returns
ProcReturn ==
    /\ np.cancelled /\ ~np.procReturned
    /\ np' = [np EXCEPT !.procReturned = TRUE]
    /\ UNCHANGED <<notProducerVars, breakerVars>>

\* flushWorker's select takes ctx.Done and the goroutine returns
WorkerReturn ==
    /\ np.cancelled /\ ~np.workerReturned
    /\ np' = [np EXCEPT !.workerReturned = TRUE]
    /\ UNCHANGED <<notProducerVars, breakerVars>>

\* NATSProducer.Stop after wg.Wait: the connection is closed
StopEnd ==
    /\ np.procReturned /\ np.workerReturned /\ ~np.closed
    /\ np' = [np EXCEPT !.closed = TRUE]
    /\ UNCHANGED <<notProducerVars, breakerVars>>

-----------------------------------------------------------------------------
(* Protocol parsers of internal/dpi.  A payload is a sequence of bytes;     *)
(* At and Slice index it from 0 as the code does.  An index or a slice      *)
(* bound the code does not check ends the parse with the run-time error     *)
(* the Go runtime raises; none of the parsers or of their callers recovers. *)

notParseVars == <<pipelineVars, rules, counters, engineVars, soarVars, httpLog,
                  dpiVars, sensorVars, pktTime, beaconVars, scanVars,
                  anomalyVars, breakerVars, sinkLife, np, conns, mtls,
                  sensorLife>>

\* data[i]
At(data, i) == data[i + 1]

\* data[lo:hi]
Slice(data, lo, hi) == SubSeq(data, lo + 1, hi)

\* uint16(data[i])<<8 | uint16(data[i+1])
Uint16(data, i) == At(data, i) * 256 + At(data, i + 1)

\* n bytes of value b
Fill(n, b) == [k \in 1..n |-> b]

\* every byte string of at most n bytes over the alphabet
BytesUpTo(alphabet, n) == UNION {[1..k -> alphabet] : k \in 0..n}

\* name.WriteByte('.') when the name is not empty, then the label
Dotted(name, label) == IF name = <<>> THEN label ELSE name \o <<46>> \o label

\* parseDNSName; name is the name built so far, fuel the calls the stack still
\* has room for.  A chain of compression pointers longer than the payload has
\* visited a pointer twice, and then the code recurses without end
RECURSIVE parseDNSName(_, _, _, _)
parseDNSName(data, offset, name, fuel) ==
    IF offset >= Len(data)
    THEN [name |-> name, offset |-> offset, crash |-> ""]
    ELSE LET length == At(data, offset)
         IN  IF length = 0
             THEN [name |-> name, offset |-> offset + 1, crash |-> ""]
             ELSE IF length >= 192
             THEN IF offset + 1 >= Len(data)
                  THEN [name |-> name, offset |-> offset, crash |-> ""]
                  ELSE IF fuel = 0
                  THEN [name |-> name, offset |-> offset, crash |-> "stack overflow"]
                  ELSE LET pointer == (length - 192) * 256 + At(data, offset + 1)
                           pointed == parseDNSName(data, pointer, <<>>, fuel - 1)
                       IN  IF pointed.crash # ""
                           THEN [name |-> name, offset |-> offset, crash |-> pointed.crash]
                           ELSE [name |-> Dotted(name, pointed.name),
                                 offset |-> offset + 2, crash |-> ""]
             ELSE IF offset + 1 + length > Len(data)
                  THEN [name |-> name, offset |-> offset + 1, crash |-> ""]
                  ELSE parseDNSName(data, offset + 1 + length,
                                    Dotted(name, Slice(data, offset + 1, offset + 1 + length)),
                                    fuel)

\* parseDNS: the loop over the questions
RECURSIVE dnsQuestions(_, _, _, _)
dnsQuestions(data, offset, left, domain) ==
    IF left = 0 \/ offset >= Len(data)
    THEN [offset |-> offset, domain |-> domain, crash |-> ""]
    ELSE LET n == parseDNSName(data, offset, <<>>, Len(data))
         IN  IF n.crash # "" THEN [offset |-> offset, domain |-> domain, crash |-> n.crash]
             ELSE IF n.offset <= offset
             THEN [offset |-> offset, domain |-> domain, crash |-> ""]
             ELSE IF n.offset + 4 > Len(data)
             THEN [offset |-> n.offset, domain |-> domain, crash |-> ""]
             ELSE dnsQuestions(data, n.offset + 4, left - 1, n.name)

\* parseDNS: the loop over the answers; its result is the run-time error, if any
RECURSIVE dnsAnswers(_, _, _)
dnsAnswers(data, offset, left) ==
    IF left = 0 \/ offset >= Len(data) THEN ""
    ELSE LET n == parseDNSName(data, offset, <<>>, Len(data))
         IN  IF n.crash # "" THEN n.crash
             ELSE IF n.offset <= offset \/ n.offset + 10 > Len(data) THEN ""
             ELSE LET aType == Uint16(data, n.offset)
                      rdLength == Uint16(data, n.offset + 8)
                      start == n.offset + 10
                  IN  IF start + rdLength > Len(data) THEN ""
                      ELSE LET rData == Slice(data, start, start + rdLength)
                               c == CASE aType = 5  ->
                                           parseDNSName(rData, 0, <<>>, Len(rData)).crash
                                      [] aType = 16 ->
                                           IF rdLength = 0
                                           THEN "slice bounds out of range" ELSE ""
                                      [] OTHER -> ""
                           IN  IF c # "" THEN c
                               ELSE dnsAnswers(data, start + rdLength, left - 1)

\* parseDNS
parseDNS(data) ==
    IF Len(data) < 12
    THEN [match |-> FALSE, name |-> <<>>, crash |-> ""]
    ELSE LET q == dnsQuestions(data, 12, Uint16(data, 4), <<>>)
             a == IF q.crash # "" THEN q.crash
                  ELSE dnsAnswers(data, q.offset, Uint16(data, 6))
         IN  [match |-> a = "", name |-> q.domain, crash |-> a]

\* parseClientHello: the loop over the extensions; extLen is the length the
\* extensions block declares
RECURSIVE helloExtensions(_, _, _, _)
helloExtensions(data, offset, extLen, name) ==
    IF ~(offset + 4 <= Len(data) /\ offset < extLen + 4)
    THEN [name |-> name, crash |-> ""]
    ELSE LET extType == Uint16(data, offset)
             len1 == Uint16(data, offset + 2)
             off == offset + 4
         IN  IF extType # 0 THEN helloExtensions(data, off + len1, extLen, name)
             ELSE IF off + 2 > Len(data) THEN [name |-> name, crash |-> ""]
             ELSE IF off + 2 >= Len(data)
             THEN [name |-> name, crash |-> "index out of range"]
             ELSE LET nameType == At(data, off)
                      nameLen == Uint16(data, off + 1)
                      serverName == IF nameType = 0 /\ off + 3 + nameLen <= Len(data)
                                    THEN Slice(data, off + 3, off + 3 + nameLen)
                                    ELSE name
                  IN  helloExtensions(data, off + len1, extLen, serverName)

\* TLSParser.parseClientHello
parseClientHello(data) ==
    LET none == [name |-> <<>>, crash |-> ""]
        afterSession == 35 + At(data, 34)
        afterCiphers == afterSession + 2 + Uint16(data, afterSession)
        afterComp == afterCiphers + 1 + At(data, afterCiphers)
    IN  IF 2 > Len(data) \/ 34 >= Len(data) THEN none
        ELSE IF afterSession + 2 > Len(data) THEN none
        ELSE IF afterCiphers >= Len(data) THEN none
        ELSE IF afterComp + 2 > Len(data) THEN none
        ELSE helloExtensions(data, afterComp + 2, Uint16(data, afterComp), <<>>)

\* TLSParser.parseHandshake.  msgData := data[4 : 4+length] is not checked
\* against len(data): the slice expression panics when 4+length exceeds the
\* capacity of the buffer, and takes in bytes beyond the payload otherwise
parseHandshake(data) ==
    IF Len(data) < 4 THEN [name |-> <<>>, crash |-> ""]
    ELSE LET msgType == At(data, 0)
             length == At(data, 1) * 65536 + At(data, 2) * 256 + At(data, 3)
         IN  IF 4 + length > Len(data)
             THEN [name |-> <<>>, crash |-> "slice bounds out of range"]
             ELSE IF msgType = 1
             THEN parseClientHello(Slice(data, 4, 4 + length))
             ELSE [name |-> <<>>, crash |-> ""]

\* parseTLS
parseTLS(data) ==
    IF Len(data) < 5 THEN [match |-> FALSE, name |-> <<>>, crash |-> ""]
    ELSE IF At(data, 0) = 22
    THEN LET h == parseHandshake(Slice(data, 5, Len(data)))
         IN  [match |-> h.crash = "", name |-> h.name, crash |-> h.crash]
    ELSE [match |-> TRUE, name |-> <<>>, crash |-> ""]

\* the DNS payloads given to the parser: a header announcing one question or
\* one answer, followed by every short byte string over bytes that are label
\* lengths, letters, the pointer mark and offsets into the payload; answers
\* with the root name, a type, and record data
DNSHeader(questions, answers) ==
    <<0, 1, 1, 0, 0, questions, 0, answers, 0, 0, 0, 0>>
DNSAnswer(type, rdata) ==
    <<0, 0, type, 0, 1, 0, 0, 0, 60, 0, Len(rdata)>> \o rdata
DNSPayloads ==
    {DNSHeader(1, 0) \o b : b \in BytesUpTo({0, 1, 97, 192, 12, 14}, MaxNameBytes)}
    \cup {DNSHeader(0, 1) \o DNSAnswer(t, r) :
              t \in {1, 5, 16}, r \in BytesUpTo({0, 1, 97, 192}, 2)}
    \cup {DNSHeader(1, 0) \o <<3, 119, 119, 119, 0, 0, 1, 0, 1>>, <<0, 1, 1>>}

\* a ClientHello body whose extensions block is exts, its length field being
\* the length of exts plus more
HelloBody(exts, more) ==
    <<3, 3>> \o Fill(32, 0) \o <<0>> \o <<0, 2, 0, 47>> \o <<1, 0>>
             \o <<0, Len(exts) + more>> \o exts

\* a handshake record: content type, handshake type, the handshake message
\* with its length field off by delta
TLSRecord(contentType, msgType, delta, body) ==
    <<contentType, 3, 1, 0, 0, msgType, 0, 0, Len(body) + delta>> \o body

\* the TLS payloads given to parseTLS: every short extensions block, every
\* truncation of a ClientHello, length fields larger than the data
TLSPayloads ==
    {TLSRecord(22, 1, 0, HelloBody(e, more)) :
        e \in BytesUpTo({0, 1, 97}, MaxExtBytes), more \in {0, 60}}
    \cup {TLSRecord(22, 1, 0, SubSeq(HelloBody(<<0, 0, 0, 4, 0, 0, 1, 97>>, 60), 1, k)) :
              k \in 0..51}
    \cup {TLSRecord(c, t, d, HelloBody(<<>>, 0)) :
              c \in {22, 23}, t \in {1, 2}, d \in {0, 1}}
    \cup {<<22, 3, 1>>, <<22, 3, 1, 0, 0, 1>>}

\* ProtocolParser on a UDP payload to or from port 53
ParseDNS(payload) ==
    LET r == parseDNS(payload)
    IN /\ ~lastParse.done
       /\ lastParse' = [done |-> TRUE, parser |-> "dns", payload |-> payload,
                        match |-> r.match, name |-> r.name, crash |-> r.crash,
                        method |-> <<>>]
       /\ UNCHANGED notParseVars

\* TLSParser.parse on a TCP payload
ParseTLS(payload) ==
    LET r == parseTLS(payload)
    IN /\ ~lastParse.done
       /\ lastParse' = [done |-> TRUE, parser |-> "tls", payload |-> payload,
                        match |-> r.match, name |-> r.name, crash |-> r.crash,
                        method |-> <<>>]
       /\ UNCHANGED notParseVars

-----------------------------------------------------------------------------
(* The sensor's ClientHello parser, cmd/sge-network-sensor/dpi.             *)

\* the bytes of b from the first that is not ASCII on
AfterASCII(b) ==
    LET high == {k \in DOMAIN b : b[k] >= 128}
    IN  IF high = {} THEN <<>>
        ELSE SubSeq(b, CHOOSE k \in high : \A j \in high : k <= j, Len(b))

\* utf8.Valid: bytes below 0x80 stand alone and are skipped; a first byte of
\* 0xC2-0xDF takes one continuation byte, of 0xE0-0xEF two, of 0xF0-0xF4
\* three, the second byte within the range the first byte accepts
RECURSIVE utf8Valid(_)
utf8Valid(given) ==
    LET b == AfterASCII(given)
    IN
    IF b = <<>> THEN TRUE
    ELSE LET x == b[1]
             size == CASE x < 128 -> 1
                       [] x >= 194 /\ x <= 223 -> 2
                       [] x >= 224 /\ x <= 239 -> 3
                       [] x >= 240 /\ x <= 244 -> 4
                       [] OTHER -> 0
             lo == CASE x = 224 -> 160 [] x = 240 -> 144 [] OTHER -> 128
             hi == CASE x = 237 -> 159 [] x = 244 -> 143 [] OTHER -> 191
         IN  /\ size > 0
             /\ Len(b) >= size
             /\ size >= 2 => (b[2] >= lo /\ b[2] <= hi)
             /\ \A k \in 3..size : b[k] >= 128 /\ b[k] <= 191
             /\ utf8Valid(SubSeq(b, size + 1, Len(b)))

\* the test of the name length: nameLen == 0 || nameLen > MaxSNILength rejects
ValidSNILength_OffByOne(nameLen) == nameLen # 0 /\ nameLen <= MaxSNILength + 1
ValidSNILength(nameLen) == nameLen # 0 /\ nameLen <= MaxSNILength

\* ParseTLSClientHello: the loop over the extensions, up to extensionsEnd
RECURSIVE sniExtensions(_, _, _)
sniExtensions(payload, offset, extensionsEnd) ==
    LET none == [ok |-> FALSE, name |-> <<>>]
    IN  IF ~(offset + 4 <= extensionsEnd) THEN none
        ELSE LET extType == Uint16(payload, offset)
                 extLen == Uint16(payload, offset + 2)
                 ext == offset + 4
                 nameAt == ext + 5
             IN  IF extType # 0 THEN sniExtensions(payload, ext + extLen, extensionsEnd)
                 ELSE IF ext + extLen > extensionsEnd THEN none
                 ELSE IF extLen < 2 THEN none
                 ELSE IF ext + 2 >= extensionsEnd THEN none
                 ELSE IF At(payload, ext + 2) # 0 THEN none
                 ELSE IF ext + 5 > extensionsEnd THEN none
                 ELSE LET nameLen == Uint16(payload, ext + 3)
                          sniBytes == Slice(payload, nameAt, nameAt + nameLen)
                      IN  IF ~ValidSNILength(nameLen) THEN none
                          ELSE IF nameAt + nameLen > extensionsEnd THEN none
                          ELSE IF ~utf8Valid(sniBytes) THEN none
                          ELSE IF \E k \in DOMAIN sniBytes :
                                      sniBytes[k] < 32 \/ sniBytes[k] = 127
                               THEN none
                          ELSE [ok |-> TRUE, name |-> sniBytes]

\* ParseTLSClientHello
ParseTLSClientHello(given) ==
    LET none == [ok |-> FALSE, name |-> <<>>]
        payload == IF Len(given) > MaxTLSPayloadSize
                   THEN Slice(given, 0, MaxTLSPayloadSize) ELSE given
        afterSession == 44 + At(payload, 43)
        afterCiphers == afterSession + 2 + Uint16(payload, afterSession)
        afterComp == afterCiphers + 1 + At(payload, afterCiphers)
        extensionsEnd == afterComp + 2 + Uint16(payload, afterComp)
    IN  IF Len(given) < MinTLSHelloSize THEN none
        ELSE IF At(payload, 0) # 22 THEN none
        ELSE IF At(payload, 1) # 3 THEN none
        ELSE IF At(payload, 5) # 1 THEN none
        ELSE IF 43 >= Len(payload) THEN none
        ELSE IF afterSession + 2 >= Len(payload) THEN none
        ELSE IF afterCiphers + 1 >= Len(payload) THEN none
        ELSE IF afterComp + 2 >= Len(payload) THEN none
        ELSE IF extensionsEnd > Len(payload) THEN none
        ELSE sniExtensions(payload, afterComp + 2, extensionsEnd)

\* a server-name extension: list length, name type, name length as declared
\* (the length of the name plus more), the name
SNIExtension(nameType, name, more) ==
    <<0, 0, (Len(name) + 5) \div 256, (Len(name) + 5) % 256,
      (Len(name) + 3) \div 256, (Len(name) + 3) % 256, nameType,
      (Len(name) + more) \div 256, (Len(name) + more) % 256>> \o name

\* a record holding a handshake message with the given session id and
\* extensions, the extensions block declaring the length of exts plus more
HelloRecord(contentType, major, msgType, sessionID, exts, more) ==
    <<contentType, major, 1, 0, 0, msgType, 0, 0, 0, 3, 3>> \o Fill(32, 0)
        \o <<Len(sessionID)>> \o sessionID \o <<0, 2, 0, 47>> \o <<1, 0>>
        \o <<(Len(exts) + more) \div 256, (Len(exts) + more) % 256>> \o exts

\* the names tried: every short string over a letter, the dot, two control
\* bytes, the two bytes of U+00E9 and an invalid byte; names of 253 and of
\* 254 letters
SNINames ==
    BytesUpTo({97, 46, 31, 127, 195, 169, 255}, MaxSNIBytes)
    \cup {Fill(MaxSNILength, 97), Fill(MaxSNILength + 1, 97)}

\* the payloads given to ParseTLSClientHello
SNIPayloads ==
    {HelloRecord(22, 3, 1, <<>>, SNIExtension(0, n, 0), 0) : n \in SNINames}
    \cup {HelloRecord(c, v, t, sid, pre \o SNIExtension(nt, n, nm), em) :
              c \in {22, 23}, v \in {3, 2}, t \in {1, 2}, sid \in {<<>>, <<7>>},
              pre \in {<<>>, <<0, 10, 0, 0>>}, nt \in {0, 1},
              n \in {<<97>>, <<97, 46, 97>>}, nm \in {0, 1}, em \in {0, 1}}
    \cup {HelloRecord(22, 3, 1, <<>>, SubSeq(SNIExtension(0, <<97, 46, 97>>, 0), 1, k), m) :
              k \in 0..12, m \in {0, 2}}
    \cup {SubSeq(HelloRecord(22, 3, 1, <<>>, SNIExtension(0, <<97>>, 0), 0), 1, k) :
              k \in 0..60}

\* Inspector on a TCP payload: ParseTLSClientHello
InspectClientHello(payload) ==
    LET r == ParseTLSClientHello(payload)
    IN /\ ~lastParse.done
       /\ lastParse' = [done |-> TRUE, parser |-> "sni", payload |-> payload,
                        match |-> r.ok, name |-> r.name, crash |-> "",
                        method |-> <<>>]
       /\ UNCHANGED notParseVars

-----------------------------------------------------------------------------
(* The sensor's HTTP request parser, cmd/sge-network-sensor/dpi.            *)

\* httpMethods, in the order the parser tries them: "GET ", "POST ", "PUT ",
\* "DELETE ", "HEAD ", "OPTIONS ", "PATCH "
httpMethods ==
    << <<71, 69, 84, 32>>, <<80, 79, 83, 84, 32>>, <<80, 85, 84, 32>>,
       <<68, 69, 76, 69, 84, 69, 32>>, <<72, 69, 65, 68, 32>>,
       <<79, 80, 84, 73, 79, 78, 83, 32>>, <<80, 65, 84, 67, 72, 32>> >>

\* headerHost: "\r\nHost: "
headerHost == <<13, 10, 72, 111, 115, 116, 58, 32>>

\* bytes.HasPrefix
HasPrefix(s, prefix) ==
    Len(s) >= Len(prefix) /\ SubSeq(s, 1, Len(prefix)) = prefix

\* bytes.Index: where sep first starts in s, -1 when it does not occur
Index(s, sep) ==
    LET at == {i \in 0..(Len(s) - Len(sep)) : Slice(s, i, i + Len(sep)) = sep}
    IN  IF at = {} THEN -1 ELSE CHOOSE i \in at : \A j \in at : i <= j

\* bytes.IndexByte
IndexByte(s, c) == Index(s, <<c>>)

\* min
min(a, b) == IF a < b THEN a ELSE b

\* containsControlChars: a byte below 32 other than the tab, or DEL
containsControlChars(b) ==
    \E k \in DOMAIN b : (b[k] < 32 /\ b[k] # 9) \/ b[k] = 127

\* ParseHTTPRequest: what it returns for the bytes given
ParseHTTPRequest(given) ==
    LET none == [ok |-> FALSE, method |-> <<>>, host |-> <<>>]
        payload == IF Len(given) > MaxPayloadSize
                   THEN Slice(given, 0, MaxPayloadSize) ELSE given
        matching == {k \in DOMAIN httpMethods : HasPrefix(payload, httpMethods[k])}
        m == httpMethods[CHOOSE k \in matching : \A j \in matching : k <= j]
        hostStart == Index(payload, headerHost)
        start == hostStart + Len(headerHost)
        end == IndexByte(Slice(payload, start, Len(payload)), 13)
        hostBytes == Slice(payload, start, start + end)
        host == IF /\ hostStart # -1
                   /\ end # -1 /\ end <= MaxHostLength
                   /\ utf8Valid(hostBytes) /\ ~containsControlChars(hostBytes)
                THEN hostBytes ELSE <<>>
    IN  IF Len(given) = 0 THEN none
        ELSE IF IndexByte(Slice(payload, 0, min(256, Len(payload))), 0) # -1
        THEN none
        ELSE IF matching = {} THEN none
        ELSE [ok |-> TRUE, method |-> Slice(m, 0, Len(m) - 1), host |-> host]

\* a request: the first bytes, a path of the given length, a header, and the
\* rest
Request(first, pathLen, rest) ==
    first \o <<47>> \o Fill(pathLen, 65)
        \o <<32, 72, 84, 84, 80, 47, 49, 46, 49>> \o rest

\* a Host header with the given value, closed by "\r\n\r\n"
HostHeader(value) == headerHost \o value \o <<13, 10, 13, 10>>

\* the first bytes tried: the seven verbs with their space, and "BOOM ",
\* "get ", "GET" with no space after it, "GETS "
FirstBytes ==
    {httpMethods[k] : k \in DOMAIN httpMethods}
    \cup {<<66, 79, 79, 77, 32>>, <<103, 101, 116, 32>>, <<71, 69, 84>>,
          <<71, 69, 84, 83, 32>>}

\* the Host values tried: every short string over a letter, the tab, the
\* line feed, DEL, the two bytes of U+00E9 and the null byte; values of 255
\* and of 256 letters
HostValues ==
    BytesUpTo({97, 9, 10, 127, 195, 169, 0}, MaxHostBytes)
    \cup {Fill(MaxHostLength, 97), Fill(MaxHostLength + 1, 97)}

\* the payloads given to ParseHTTPRequest
HTTPPayloads ==
    {Request(f, 0, HostHeader(v)) : f \in FirstBytes, v \in HostValues}
    \* no Host header; a header of another name; "host" in lower case
    \cup {Request(f, 0, h) : f \in FirstBytes,
             h \in {<<>>, <<13, 10, 13, 10>>,
                    <<13, 10, 85, 58, 32, 97, 13, 10>>,
                    <<13, 10, 104, 111, 115, 116, 58, 32, 97, 13, 10>>}}
    \* a Host value the payload ends in
    \cup {Request(f, 0, headerHost \o <<97, 98>>) : f \in FirstBytes}
    \* a null byte at offsets 255, 256 and 257 of the payload
    \cup {Request(<<71, 69, 84, 32>>, n, <<0>> \o HostHeader(<<97>>)) :
             n \in 241..243}
    \* a Host header that starts before, at and after the inspected bytes end
    \cup {Request(<<71, 69, 84, 32>>, n, HostHeader(<<97>>)) :
             n \in {MaxPayloadSize - 25, MaxPayloadSize - 24,
                    MaxPayloadSize - 14, MaxPayloadSize}}
    \cup {<<>>, <<0>>, <<71>>}

\* the sensor hands a TCP payload to ParseHTTPRequest
InspectHTTPRequest(payload) ==
    LET r == ParseHTTPRequest(payload)
    IN /\ ~lastParse.done
       /\ lastParse' = [done |-> TRUE, parser |-> "http", payload |-> payload,
                        match |-> r.ok, name |-> r.host, crash |-> "",
                        method |-> r.method]
       /\ UNCHANGED notParseVars

-----------------------------------------------------------------------------
(* Bus connections.  Each client hands nats.Connect the options             *)
(* ReconnectWait and MaxReconnects; the connection then reconnects by       *)
(* itself: after a disconnect it tries the server again every ReconnectWait *)
(* until an attempt succeeds or, with a non-negative MaxReconnects, that    *)
(* many attempts have failed, when it closes for good.                      *)

notConnVars == <<pipelineVars, rules, counters, engineVars, soarVars, httpLog,
                 dpiVars, sensorVars, pktTime, beaconVars, scanVars,
                 anomalyVars, breakerVars, sinkLife, np, mtls, lastParse,
                 sensorLife>>

\* whether the connection of client c may make one more attempt
MayRetry(c, attempts) == MaxReconnects(c) < 0 \/ attempts < MaxReconnects(c)

\* the connection of client c is lost
Disconnect(c) ==
    /\ conns[c].status = "connected"
    /\ conns' = [conns EXCEPT ![c] =
                    IF MayRetry(c, 0)
                    THEN [status |-> "reconnecting", attempts |-> 0]
                    ELSE [status |-> "closed", attempts |-> 0]]
    /\ UNCHANGED notConnVars

\* one reconnect attempt of client c, ReconnectWait after the last
Reconnect(c, ok) ==
    /\ conns[c].status = "reconnecting"
    /\ conns[c].attempts < MaxAttempts
    /\ conns' = [conns EXCEPT ![c] =
                    IF ok THEN Connected
                    ELSE IF MayRetry(c, conns[c].attempts + 1)
                    THEN [status |-> "reconnecting", attempts |-> conns[c].attempts + 1]
                    ELSE [status |-> "closed", attempts |-> conns[c].attempts + 1]]
    /\ UNCHANGED notConnVars

-----------------------------------------------------------------------------
(* Certificate rotation.  checkAndRotate runs on the rotation goroutine:    *)
(* GenerateServerCert writes server.crt and then server.key,                *)
(* reloadTLSConfig loads the pair into a new tls.Config and stores it in    *)
(* m.tlsConfig under m.mu.  GetTLSConfig runs on any goroutine and returns  *)
(* a clone made under the read lock.                                        *)

notTLSVars == <<pipelineVars, rules, counters, engineVars, soarVars, httpLog,
                dpiVars, sensorVars, pktTime, beaconVars, scanVars,
                anomalyVars, breakerVars, sinkLife, np, conns, lastParse,
                sensorLife>>

\* MTLSManager.GetTLSConfig: m.tlsConfig.Clone() under the read lock
GetTLSConfig ==
    LET clone == mtls.heap[mtls.tlsConfig]
    IN /\ Len(mtls.handed) < MaxGets
       /\ mtls' = [mtls EXCEPT
                      !.heap = Append(@, clone),
                      !.handed = Append(@, [addr |-> Len(mtls.heap) + 1,
                                            was |-> clone, during |-> mtls.pc])]
       /\ UNCHANGED notTLSVars

\* checkAndRotate finds the certificate due; GenerateServerCert writes server.crt
RotateCert ==
    /\ mtls.pc = "idle"
    /\ mtls.rotations < MaxRotations
    /\ mtls' = [mtls EXCEPT !.disk.cert = mtls.rotations + 1,
                            !.rotations = @ + 1,
                            !.pc = "certWritten"]
    /\ UNCHANGED notTLSVars

\* GenerateServerCert writes server.key, or fails to and checkAndRotate returns
RotateKey(ok) ==
    /\ mtls.pc = "certWritten"
    /\ mtls' = IF ok
               THEN [mtls EXCEPT !.disk.key = mtls.disk.cert, !.pc = "keyWritten"]
               ELSE [mtls EXCEPT !.pc = "idle"]
    /\ UNCHANGED notTLSVars

\* CertManager.LoadTLSConfig: tls.LoadX509KeyPair accepts a certificate and a
\* key of one generation only
LoadTLSConfig(disk, readOk) ==
    IF readOk /\ disk.cert = disk.key
    THEN [ok |-> TRUE, config |-> [cert |-> disk.cert, key |-> disk.key]]
    ELSE [ok |-> FALSE, config |-> [cert |-> 0, key |-> 0]]

\* reloadTLSConfig up to its lock: the new configuration is built aside
ReloadLoad(readOk) ==
    LET l == LoadTLSConfig(mtls.disk, readOk)
    IN /\ mtls.pc = "keyWritten"
       /\ mtls' = IF l.ok
                  THEN [mtls EXCEPT !.loaded = l.config, !.pc = "loaded"]
                  ELSE [mtls EXCEPT !.pc = "idle"]
       /\ UNCHANGED notTLSVars

\* reloadTLSConfig under m.mu: m.tlsConfig = tlsConfig
reloadTLSConfig_CertificateOnly(m) ==
    [m EXCEPT !.heap[m.tlsConfig].cert = m.loaded.cert]
reloadTLSConfig(m) ==
    [m EXCEPT !.heap = Append(@, m.loaded), !.tlsConfig = Len(m.heap) + 1]

\* the rotation goroutine stores the new configuration
ReloadStore ==
    /\ mtls.pc = "loaded"
    /\ mtls' = [reloadTLSConfig(mtls) EXCEPT !.pc = "idle"]
    /\ UNCHANGED notTLSVars

-----------------------------------------------------------------------------
(* Shutdown of the archival service.  main defers nc.Close and, after it,   *)
(* eventSink.Close; on the signal it returns, which runs eventSink.Close,   *)
(* then nc.Close, and ends the process.  Close only closes the done         *)
(* channel; the final Flush is made by the flushLoop goroutine, which       *)
(* nothing waits for.                                                       *)

notSinkVars == <<fabricVars, intelVars, rules, counters, engineVars, soarVars,
                 httpLog, dpiVars, sensorVars, pktTime, beaconVars, scanVars,
                 anomalyVars, breakerVars, np, conns, mtls, lastParse,
                 sensorLife>>

\* main receives SIGINT/SIGTERM and runs the deferred ClickHouseSink.Close
SinkClose ==
    /\ ~sinkLife.closed
    /\ sinkLife' = [sinkLife EXCEPT !.closed = TRUE,
                                    !.atClose = {e.id : e \in Range(buffer)}]
    /\ UNCHANGED <<notSinkVars, sinkVars>>

\* flushLoop receives from the closed done channel: Flush, then return
FinalFlush(insertOk) ==
    LET f == Flush(buffer, store, insertOk)
    IN /\ sinkLife.closed /\ ~sinkLife.loopReturned /\ ~sinkLife.exited
       /\ buffer' = f.buffer
       /\ store' = f.store
       /\ sinkLife' = [sinkLife EXCEPT !.loopReturned = TRUE]
       /\ UNCHANGED <<notSinkVars, sinkWritten>>

\* main runs the deferred nc.Close and returns: the process ends
AnalyticsExit ==
    /\ sinkLife.closed /\ ~sinkLife.exited
    /\ sinkLife' = [sinkLife EXCEPT !.exited = TRUE]
    /\ UNCHANGED <<notSinkVars, sinkVars>>

Next ==
    \/ PublishRaw
    \/ \E i \in 1..MaxRaw, pubOk \in BOOLEAN : EnrichmentHandler(i, pubOk)
    \/ \E i \in 1..MaxRaw : CorrelationHandler(i)
    \/ \E j \in 1..MaxRaw, insertOk \in BOOLEAN : ArchivalHandler(j, insertOk)
    \/ \E insertOk \in BOOLEAN : FlushTick(insertOk)
    \/ Tick
    \/ RedisFlap
    \/ \E rs \in RuleLists : LoadBegin(rs)
    \/ LoadStore
    \/ \E evt \in EvalEvents : EvalBegin(evt)
    \/ EvalEnd
    \/ \E pbs \in PlaybookSets : NewEngine(pbs)
    \/ \E k \in 1..MaxRaw : SoarHandler(k)
    \/ \E alert \in ExecuteAlerts : Execute(alert)
    \/ \E t \in 1..MaxTasks, pubOk \in BOOLEAN, actErr \in BOOLEAN :
          ExecuteStep(t, pubOk, actErr)
    \/ \E body \in PostBodies, pubOk \in BOOLEAN : HandleHTTPEvent(body, pubOk)
    \/ \E p \in Packets : ProcessPacket(p)
    \/ \E res \in InspectResults : Worker(res)
    \/ \E n \in 0..QueueCap, res \in InspectResults : Stop(n, res)
    \/ ResetStats
    \/ \E hasIP \in BOOLEAN : CaptureLoop(hasIP)
    \/ EventConsumer
    \/ \E key \in FlowKeys : BeaconCheck(key)
    \/ Quiet
    \/ \E ip \in ScanIPs, gap \in {ScanGapMs, ScanQuietMs} : PortScanCheck(ip, gap)
    \/ \E ip \in AnomalyIPs, size \in AnomalySizes : AnomalyCheck(ip, size)
    \/ BatchEvent
    \/ FlushTicker
    \/ CbTick
    \/ NatsFlap
    \/ SinkClose
    \/ \E insertOk \in BOOLEAN : FinalFlush(insertOk)
    \/ AnalyticsExit
    \/ Publish
    \/ BatchProcessor
    \/ FlushWorker
    \/ StopBegin
    \/ ProcReturn
    \/ WorkerReturn
    \/ StopEnd
    \/ \E c \in BusClients : Disconnect(c)
    \/ \E c \in BusClients, ok \in BOOLEAN : Reconnect(c, ok)
    \/ GetTLSConfig
    \/ RotateCert
    \/ \E ok \in BOOLEAN : RotateKey(ok)
    \/ \E readOk \in BOOLEAN : ReloadLoad(readOk)
    \/ ReloadStore
    \/ \E payload \in DNSPayloads : ParseDNS(payload)
    \/ \E payload \in TLSPayloads : ParseTLS(payload)
    \/ \E payload \in SNIPayloads : InspectClientHello(payload)
    \/ \E payload \in HTTPPayloads : InspectHTTPRequest(payload)
    \/ Cancel
    \/ \E n \in 0..QueueCap, res \in InspectResults : MainStop(n, res)
    \/ \E i \in Interfaces, p \in Packets : CaptureReceive(i, p)
    \/ \E i \in Interfaces : CaptureSubmit(i)
    \/ \E i \in Interfaces : CaptureReturn(i)
    \/ CaptureWait

Spec == Init /\ [][Next]_vars

\* the enrichment worker with its producers, its cache and the clock
NextEnrich ==
    \/ PublishRaw
    \/ \E i \in 1..MaxRaw, pubOk \in BOOLEAN : EnrichmentHandler(i, pubOk)
    \/ Tick
    \/ RedisFlap

SpecEnrich == Init /\ [][NextEnrich]_vars

\* the enrichment worker with its producers and its cache, the clock standing
NextEscalate ==
    \/ PublishRaw
    \/ \E i \in 1..MaxRaw, pubOk \in BOOLEAN : EnrichmentHandler(i, pubOk)
    \/ RedisFlap

SpecEscalate == Init /\ [][NextEscalate]_vars

\* the correlation engine with its producers
NextCorr ==
    \/ PublishRaw
    \/ \E i \in 1..MaxRaw : CorrelationHandler(i)

SpecCorr == Init /\ [][NextCorr]_vars

\* the two consumer groups of the raw subjects
NextFabric ==
    \/ PublishRaw
    \/ \E i \in 1..MaxRaw, pubOk \in BOOLEAN : EnrichmentHandler(i, pubOk)
    \/ \E i \in 1..MaxRaw : CorrelationHandler(i)

SpecFabric == Init /\ [][NextFabric]_vars

\* the archival sink fed by the enrichment worker
NextSink ==
    \/ PublishRaw
    \/ \E i \in 1..MaxRaw, pubOk \in BOOLEAN : EnrichmentHandler(i, pubOk)
    \/ \E j \in 1..MaxRaw, insertOk \in BOOLEAN : ArchivalHandler(j, insertOk)
    \/ \E insertOk \in BOOLEAN : FlushTick(insertOk)

SpecSink == Init /\ [][NextSink]_vars

\* the archival sink from start-up to the end of its process
NextSinkClose ==
    \/ PublishRaw
    \/ \E i \in 1..MaxRaw, pubOk \in BOOLEAN : EnrichmentHandler(i, pubOk)
    \/ \E j \in 1..MaxRaw, insertOk \in BOOLEAN : ArchivalHandler(j, insertOk)
    \/ \E insertOk \in BOOLEAN : FlushTick(insertOk)
    \/ SinkClose
    \/ \E insertOk \in BOOLEAN : FinalFlush(insertOk)
    \/ AnalyticsExit

SpecSinkClose == Init /\ [][NextSinkClose]_vars

\* the rule engine with callers that reload and evaluate concurrently
NextEngine ==
    \/ \E rs \in RuleLists : LoadBegin(rs)
    \/ LoadStore
    \/ \E evt \in EvalEvents : EvalBegin(evt)
    \/ EvalEnd

SpecEngine == Init /\ [][NextEngine]_vars

\* the SOAR engine fed by the correlation engine
NextSoar ==
    \/ PublishRaw
    \/ \E i \in 1..MaxRaw : CorrelationHandler(i)
    \/ \E pbs \in PlaybookSets : NewEngine(pbs)
    \/ \E k \in 1..MaxRaw : SoarHandler(k)
    \/ \E t \in 1..MaxTasks, pubOk \in BOOLEAN, actErr \in BOOLEAN :
          ExecuteStep(t, pubOk, actErr)

SpecSoar == Init /\ [][NextSoar]_vars

\* the playbook engine with a caller of Execute
NextPlaybooks ==
    \/ \E pbs \in PlaybookSets : NewEngine(pbs)
    \/ \E alert \in ExecuteAlerts : Execute(alert)
    \/ \E t \in 1..MaxTasks, pubOk \in BOOLEAN, actErr \in BOOLEAN :
          ExecuteStep(t, pubOk, actErr)

SpecPlaybooks == Init /\ [][NextPlaybooks]_vars

\* the HTTP ingest handler
NextIngest ==
    \E body \in PostBodies, pubOk \in BOOLEAN : HandleHTTPEvent(body, pubOk)

SpecIngest == Init /\ [][NextIngest]_vars

\* the packet inspector with its capture loop and its shutdown
NextDPI ==
    \/ \E p \in Packets : ProcessPacket(p)
    \/ \E res \in InspectResults : Worker(res)
    \/ \E n \in 0..QueueCap, res \in InspectResults : Stop(n, res)
    \/ ResetStats
    \/ \E hasIP \in BOOLEAN : CaptureLoop(hasIP)
    \/ EventConsumer

SpecDPI == Init /\ [][NextDPI]_vars

\* the beacon tracker fed with the packets of two flows
NextBeacon ==
    \/ \E key \in FlowKeys : BeaconCheck(key)
    \/ Quiet

SpecBeacon == Init /\ [][NextBeacon]_vars

\* the port-scan tracker fed with the packets of two sources
NextScan ==
    \E ip \in ScanIPs, gap \in {ScanGapMs, ScanQuietMs} : PortScanCheck(ip, gap)

SpecScan == Init /\ [][NextScan]_vars

\* the anomaly tracker fed with the packets of one source
NextAnomaly ==
    \E ip \in AnomalyIPs, size \in AnomalySizes : AnomalyCheck(ip, size)

SpecAnomaly == Init /\ [][NextAnomaly]_vars

\* the producer's circuit breaker
NextBreaker ==
    \/ BatchEvent
    \/ FlushTicker
    \/ CbTick
    \/ NatsFlap

SpecBreaker == Init /\ [][NextBreaker]_vars

\* the same, with events that keep arriving, a flush ticker that keeps firing
\* and time that keeps passing
SpecBreakerFair ==
    /\ Init /\ [][NextBreaker]_vars
    /\ WF_vars(BatchEvent)
    /\ WF_vars(FlushTicker)
    /\ WF_vars(CbTick)

-----------------------------------------------------------------------------
(* the sensor's producer with its callers, the clock and JetStream *)
NextProducer ==
    \/ Publish
    \/ BatchProcessor
    \/ FlushWorker
    \/ CbTick
    \/ NatsFlap
    \/ StopBegin
    \/ ProcReturn
    \/ WorkerReturn
    \/ StopEnd

SpecProducer == Init /\ [][NextProducer]_vars

\* the bus clients and the connections they lose and regain
NextConn ==
    \/ \E c \in BusClients : Disconnect(c)
    \/ \E c \in BusClients, ok \in BOOLEAN : Reconnect(c, ok)

SpecConn == Init /\ [][NextConn]_vars

\* the mTLS manager with its rotation goroutine and the callers of GetTLSConfig
NextTLS ==
    \/ GetTLSConfig
    \/ RotateCert
    \/ \E ok \in BOOLEAN : RotateKey(ok)
    \/ \E readOk \in BOOLEAN : ReloadLoad(readOk)
    \/ ReloadStore

SpecTLS == Init /\ [][NextTLS]_vars

\* the DNS and TLS parsers of internal/dpi, each on one payload
NextParsers ==
    \/ \E payload \in DNSPayloads : ParseDNS(payload)
    \/ \E payload \in TLSPayloads : ParseTLS(payload)

SpecParsers == Init /\ [][NextParsers]_vars

\* the sensor's ClientHello parser on one payload
NextSNI ==
    \E payload \in SNIPayloads : InspectClientHello(payload)

SpecSNI == Init /\ [][NextSNI]_vars

\* the sensor's capture goroutines, the inspector's workers and main's
\* shutdown
NextShutdown ==
    \/ \E i \in Interfaces, p \in Packets : CaptureReceive(i, p)
    \/ \E i \in Interfaces : CaptureSubmit(i)
    \/ \E i \in Interfaces : CaptureReturn(i)
    \/ \E res \in InspectResults : Worker(res)
    \/ Cancel
    \/ \E n \in 0..QueueCap, res \in InspectResults : MainStop(n, res)
    \/ CaptureWait

SpecShutdown == Init /\ [][NextShutdown]_vars

\* the HTTP request parser alone
NextHTTP ==
    \E payload \in HTTPPayloads : InspectHTTPRequest(payload)

SpecHTTP == Init /\ [][NextHTTP]_vars

-----------------------------------------------------------------------------
(* Properties *)

\* the event decoded from raw message i
RawEvent(i) == Unmarshal(rawLog[i].data).evt

\* raw message i was republished on the enriched subject
Republished(i) == \E k \in DOMAIN enrLog : enrLog[k].src = i

\* C1: every raw message the enrichment worker has acknowledged has had its
\* enriched message accepted by the publish buffer (no acknowledgement before,
\* or without, the publish).
C1_AckOnlyAfterEnrichedPublish ==
    \A i \in acked[ConsumerEnrichment] : Republished(i)

\* C2: every enriched message the archival consumer has acknowledged has its
\* event among the rows inserted in the store.
C2_AckOnlyAfterInsert ==
    \A j \in acked[ConsumerArchival] :
        Unmarshal(enrLog[j].data).ok =>
            Unmarshal(enrLog[j].data).evt.id \in {e.id : e \in Range(store)}

\* C3: every event handed to the sink is still in its buffer or is a row of
\* the store: a failed flush never removes events from the buffer.
C3_FailedFlushKeepsBatch ==
    \A id \in sinkWritten :
        \/ id \in {e.id : e \in Range(buffer)}
        \/ id \in {e.id : e \in Range(store)}

\* C4: a raw message leaves the events stream only after it was delivered to
\* the enrichment group and to the correlation group: the acknowledgement of
\* one group never keeps the message from the other.
C4_BothGroupsDelivered ==
    \A i \in DOMAIN rawLog :
        (SubjectMatches(TopicEventsRaw, rawLog[i].subject) /\ i \notin rawStored) =>
            /\ i \in handled[ConsumerEnrichment]
            /\ i \in handled[ConsumerCorrelation]

\* C5: every raw message the correlation consumer has acknowledged has had an
\* alert accepted by the publish buffer for every rule matching its event.
C5_AckOnlyAfterAlertsPublished ==
    \A i \in acked[ConsumerCorrelation] :
        Unmarshal(rawLog[i].data).ok =>
            \A r \in Evaluate(RawEvent(i)) :
                \E k \in DOMAIN alertLog : alertLog[k].src = i /\ alertLog[k].rule = r.id

\* C6: every alert is published on the subject alerts.<rule severity>.<rule
\* id>: three dot-separated tokens, the second the severity and the third
\* the rule id.
C6_AlertSubjectConcrete ==
    \A k \in DOMAIN alertLog :
        Tokens(alertLog[k].subject) =
            <<Str("alerts"), Str(alertLog[k].alert.severity), Str(alertLog[k].alert.rule_id)>>

\* C7: every published alert has a non-empty eventIDs list, and each id of
\* the list is non-empty and is the id of an event published on events.raw.>.
C7_AlertEventIDs ==
    \A k \in DOMAIN alertLog :
        LET ids == alertLog[k].alert.event_ids
        IN /\ Len(ids) > 0
           /\ \A n \in DOMAIN ids :
                /\ ids[n] # ""
                /\ \E i \in DOMAIN rawLog :
                     /\ SubjectMatches(TopicEventsRaw, rawLog[i].subject)
                     /\ Unmarshal(rawLog[i].data).ok
                     /\ RawEvent(i).id = ids[n]

\* an alert was published for a raw event
C7_Witness ==
    \E k \in DOMAIN alertLog : alertLog[k].alert.event_ids = <<RawEvent(alertLog[k].src).id>>

\* C8: every republished event whose raw severity is one of info, low,
\* medium, high, critical has an enriched severity of that scale that is
\* greater than or equal to the raw severity.
C8_SeverityNeverLowered ==
    \A k \in DOMAIN enrLog :
        LET rawSev == RawEvent(enrLog[k].src).severity
            enrSev == enrLog[k].data.evt.severity
        IN rawSev \in Severity =>
               enrSev \in Severity /\ SevRank(enrSev) >= SevRank(rawSev)

\* an event was republished with its severity escalated, and an event that
\* was already critical was republished after a malicious verdict
C8_Witness ==
    /\ \E k \in DOMAIN enrLog :
          /\ RawEvent(enrLog[k].src).severity = SeverityInfo
          /\ enrLog[k].data.evt.severity = SeverityCritical
    /\ \E k \in DOMAIN enrLog :
          /\ RawEvent(enrLog[k].src).severity = SeverityCritical
          /\ "malicious_ip" \in Range(enrLog[k].data.evt.tags)

\* C9: two calls to the external provider for the same address are at least
\* the cache TTL (24 h) apart.
C9_CacheOnce ==
    \A a, b \in DOMAIN providerCalls :
        (a < b /\ providerCalls[a].ip = providerCalls[b].ip) =>
            providerCalls[b].t - providerCalls[a].t >= IntelTTL

\* C10: the worker survives a failed lookup, and an event republished after a
\* lookup in which the shared cache did not answer keeps its severity, tags
\* and threat-intel fields.
C10_FailOpen ==
    /\ ~enrichCrashed
    /\ \A k \in DOMAIN enrLog :
          enrLog[k].cacheErr =>
              LET raw == RawEvent(enrLog[k].src)
                  enr == enrLog[k].data.evt
              IN /\ enr.severity = raw.severity
                 /\ enr.tags = raw.tags
                 /\ {p \in enr.enrichment : p[1] \in {"threat_intel_score", "threat_intel_source"}}
                      = {p \in raw.enrichment : p[1] \in {"threat_intel_score", "threat_intel_source"}}

\* C11: every published alert was gated by the correlation counter of its
\* rule: the key correlation:counter:<ruleId> was incremented for the match,
\* so it holds a value of at least 1.
C11_AlertGatedByCounter ==
    \A k \in DOMAIN alertLog : counters[alertLog[k].rule].val >= 1

\* C12: an evaluation uses a complete rule set that e.rules held while it
\* ran (the old one or the one a concurrent LoadRules stored), never a part
\* of one.
C12_CompleteSetOnly ==
    lastEval.done => lastEval.view = lastEval.from

\* C13: after LoadRules returns, every rule of its list that compiles is
\* loaded and no rule that fails to compile is; and in every evaluation each
\* rule of the set in use is a match exactly when its own program runs without
\* error and yields true, whatever the other rules do on that event.
C13_FaultConfined ==
    /\ ~loading.active =>
          \A j \in DOMAIN loading.rs :
              Compiles(loading.rs[j].condition) =>
                  /\ loading.rs[j].id \in DOMAIN rules
                  /\ rules[loading.rs[j].id] = loading.rs[j]
    /\ \A id \in DOMAIN rules : Compiles(rules[id].condition)
    /\ lastEval.done =>
          /\ lastEval.matches \subseteq Range(lastEval.view)
          /\ \A id \in DOMAIN lastEval.view :
                LET r   == lastEval.view[id]
                    run == RunProgram(r.condition, lastEval.evt)
                IN r \in lastEval.matches <=> (~run.err /\ run.out)

\* a list with a rule that does not compile is loaded without that rule, and
\* an evaluation in which one rule failed at run time returned another rule
C13_Witness ==
    /\ ~loading.active
    /\ brokenRule \in Range(loading.rs)
    /\ DOMAIN rules = {dummyRule.id, tagRule.id}
    /\ lastEval.done
    /\ tagRule \in Range(lastEval.view)
    /\ RunProgram(tagRule.condition, lastEval.evt).err
    /\ dummyRule \in lastEval.matches

\* the steps of playbook pb that the Execute goroutine t has executed
StepsRun(t, pb) == {e \in execLog : e.task = t /\ e.pb = pb.id}

\* C14: no step of a playbook is executed for an alert after a step of that
\* playbook failed for it, and once Execute has returned, every playbook the
\* alert triggers has executed each registered step that no failed step of
\* its own precedes.
C14_FailureStopsOnlyItsPlaybook ==
    /\ \A a, b \in execLog :
          (a.task = b.task /\ a.pb = b.pb /\ a.err) => b.step <= a.step
    /\ \A t \in DOMAIN soarTasks :
          TaskDone(t) =>
             \A q \in DOMAIN playbooks :
                ShouldRun(playbooks[q], soarTasks[t].alert) =>
                   \A n \in DOMAIN playbooks[q].steps :
                      (/\ playbooks[q].steps[n] \in Registry
                       /\ ~\E e \in StepsRun(t, playbooks[q]) : e.step < n /\ e.err)
                      => \E e \in StepsRun(t, playbooks[q]) : e.step = n

\* for one alert, the first step of pb-002 failed, its second step was not
\* executed, and both steps of pb-001 were
C14_Witness ==
    \E t \in DOMAIN soarTasks :
        /\ TaskDone(t)
        /\ \E e \in StepsRun(t, pb002) : e.step = 1 /\ e.err
        /\ ~\E e \in StepsRun(t, pb002) : e.step = 2
        /\ \E e \in StepsRun(t, pb001) : e.step = 1 /\ ~e.err
        /\ \E e \in StepsRun(t, pb001) : e.step = 2 /\ ~e.err

C17_BlockCommand ==
    \A c \in cmdLog :
        (c.cmd.action = "firewall_block" /\ soarTasks[c.task].src # 0) =>
            /\ Tokens(c.cmd.subject) = <<Str("commands"), Str("firewall-agent")>>
            /\ c.cmd.ip = RawEvent(alertLog[soarTasks[c.task].src].src).source_ip

\* C18: a request is answered 202 exactly when its event was accepted by the
\* publish buffer and put on events.raw.> (so a request answered otherwise put
\* no event there), 400 when its body does not parse, and 503 when the
\* publish buffer is full.
C18_StatusCodes ==
    \A h \in DOMAIN httpLog :
        /\ httpLog[h].code = 202 <=> httpLog[h].raw # 0
        /\ ~httpLog[h].body.valid => httpLog[h].code = 400
        /\ httpLog[h].full => httpLog[h].code = 503

\* C19: the normalized event of a parsed body has the id of the body when the
\* body has one, the timestamp of the body when the body has one, and status
\* new.
C19_KeepsSuppliedIdAndTimestamp ==
    \A h \in DOMAIN httpLog :
        httpLog[h].body.valid =>
            /\ httpLog[h].body.id # "" => httpLog[h].id = httpLog[h].body.id
            /\ httpLog[h].body.timestamp # "" =>
                  httpLog[h].timestamp = httpLog[h].body.timestamp
            /\ httpLog[h].status = EventStatusNew

\* C20: a ProcessPacket call that finds the queue full returns with the packet
\* dropped and droppedCount increased by exactly one.
C20_FullQueueDrops ==
    (lastSubmit.outcome # "none" /\ lastSubmit.full) =>
        (lastSubmit.outcome = "dropped" /\ lastSubmit.dropped = 1)

\* C21: no operation on the inspector ever lowers droppedCount.
C21_DroppedCountMonotone ==
    [][droppedCount' >= droppedCount]_vars

\* C22: everything an inspection produces is sent downstream without blocking:
\* each event and each threat match of a processed packet is either queued or
\* dropped with a drop counted, and so is the event of a captured IP packet.
C22_NothingSilentlyDiscarded ==
    /\ lastInspect.done =>
          lastInspect.queued + lastInspect.counted = lastInspect.produced
    /\ (lastCapture.done /\ lastCapture.hasIP) =>
          (lastCapture.queued \/ lastCapture.counted)

\* the gaps between consecutive elements of a sequence of timestamps
Gaps(arr) == [k \in 1..(Len(arr) - 1) |-> arr[k + 1] - arr[k]]

\* C23: a Check call returns a c2_beacon match only for a key whose entry holds
\* at least 10 recorded intervals.
C23_NoBeaconBeforeTenIntervals ==
    (lastBeacon.done /\ lastBeacon.match) =>
        /\ lastBeacon.intervals >= 10
        /\ Len(beaconEntries[lastBeacon.key].Intervals) >= 10

C23_Witness ==
    /\ lastBeacon.done /\ lastBeacon.match
    /\ Len(beaconEntries[lastBeacon.key].Intervals) = 10

\* C24: an entry that has seen n packets of its key holds exactly the last
\* min(n-1, 50) gaps between consecutive packets of the key, never more than 50.
C24_IntervalRing ==
    \A k \in FlowKeys :
        beaconEntries[k].present =>
            LET n    == beaconEntries[k].RequestCount
                arr  == beaconArrivals[k]
                mine == SubSeq(arr, Len(arr) - n + 1, Len(arr))
            IN  /\ Len(beaconEntries[k].Intervals) <= 50
                /\ beaconEntries[k].Intervals = KeepLast(Gaps(mine), 50)

\* C25: after an insertion at time t the tracker holds no entry last active
\* before t - 2*window; the entry of the inserting source is kept with its
\* last-seen time set to t, and only entries last active before t - 2*window
\* were removed.
C25_EvictsExactlyStale ==
    lastScan.done =>
        /\ \A ip \in ScanIPs :
              scanEntries[ip].present =>
                  scanEntries[ip].LastSeen >= scanTime - 2 * PortScanWindow
        /\ scanEntries[lastScan.ip].present
        /\ scanEntries[lastScan.ip].LastSeen = scanTime
        /\ \A ev \in lastScan.evicted : ev.last < scanTime - 2 * PortScanWindow

\* C26: a source that has contacted 150 distinct destination ports within 10 s
\* has drawn exactly one port_scan match, of severity high and score >= 60.
C26_OneMatchPerScan ==
    \A ip \in ScanIPs :
        ( /\ scanEntries[ip].present
          /\ scanEntries[ip].UniquePorts >= 150
          /\ scanEntries[ip].LastSeen - scanEntries[ip].FirstSeen <= 10000 ) =>
            /\ scanMatches[ip] = 1
            /\ lastScan.ip = ip => ( /\ lastScan.type = ThreatTypePortScan
                                     /\ lastScan.severity = SeverityHigh
                                     /\ lastScan.score >= 60 )

\* C27: the number of unique ports a Check call compares with the threshold is
\* the number of ports the source contacted within the window before the call.
C27_CountCoversWindowOnly ==
    lastScan.done => lastScan.counted = lastScan.recent

\* C28: a Check call returns an anomaly exactly from the source's 5th counted
\* burst on, never before it, and the anomaly carries score 80.
C28_AnomalyAtFifthBurst ==
    lastAnomaly.done =>
        /\ lastAnomaly.emitted => (lastAnomaly.bursts >= 5 /\ lastAnomaly.score = 80)
        /\ (lastAnomaly.burst /\ lastAnomaly.bursts = 5) => lastAnomaly.emitted

\* C29: the breaker is open only after 5 publishes in a row have failed and is
\* open once the 5th has; a successful publish resets the failure count; no
\* publish is attempted while the breaker is open.
C29_OpensAtFiveFailures ==
    /\ cb.state = circuitOpen => consecFailures >= 5
    /\ consecFailures = 5 => cb.state = circuitOpen
    /\ (lastFlush.done /\ lastFlush.ok) =>
          (consecFailures = 0 /\ cb.failureCount = 0)
    /\ (lastFlush.done /\ lastFlush.attempted) => lastFlush.during # circuitOpen

C29_Witness ==
    /\ cb.state = circuitOpen
    /\ consecFailures = 5
    /\ lastFlush.done /\ ~lastFlush.attempted

\* a request made of an open breaker is rejected while less than 30 s have
\* passed since the last failure and admitted as a half-open probe once more
\* have; a half-open breaker closes only on a successful publish
ProbeAfterTimeout ==
    lastFlush.done =>
        /\ (lastFlush.before = circuitOpen /\ lastFlush.elapsed < 30) =>
              (~lastFlush.attempted /\ lastFlush.during = circuitOpen)
        /\ (lastFlush.before = circuitOpen /\ lastFlush.elapsed > 30) =>
              (lastFlush.attempted /\ lastFlush.during = circuitHalfOpen)
        /\ (lastFlush.during = circuitHalfOpen /\ cb.state = circuitClosed) =>
              lastFlush.ok

C31_FinalFlushBeforeExit ==
    sinkLife.exited => sinkLife.atClose \subseteq {e.id : e \in Range(store)}

\* C32: when Stop has closed the connection, the batch channel and the batch
\* buffer are empty and every event Publish accepted was published or was
\* lost in a flush whose failure was recorded.
C32_AcceptedPublishedOrCounted ==
    np.closed =>
        /\ np.chLen = 0
        /\ batchLen = 0
        /\ np.accepted = np.sent + np.counted

\* C33: the events held in the batch channel and in the batch buffer never
\* exceed the channel's capacity plus one batch.
C33_OutboxBounded ==
    np.chLen + batchLen <= BatchChCap + ProducerBatchSize

\* C34: no bus client's connection is ever closed for good after failed
\* reconnect attempts: a lost connection stays in the reconnecting state until
\* an attempt succeeds.
C34_NeverGivesUp ==
    \A c \in BusClients : conns[c].status # "closed"

\* C35: every configuration GetTLSConfig returned, also during a rotation,
\* holds the certificate and the key of one generation, a generation already
\* started, and is the same now as when it was returned.
C35_AtomicSwap ==
    \A i \in DOMAIN mtls.handed :
        LET h == mtls.handed[i]
        IN /\ h.was.cert = h.was.key
           /\ h.was.cert \in 0..mtls.rotations
           /\ mtls.heap[h.addr] = h.was
           /\ h.addr # mtls.tlsConfig

\* a configuration was returned while a rotation was storing the next one,
\* and is unchanged after the rotation completed
C35_Witness ==
    \E i \in DOMAIN mtls.handed :
        /\ mtls.handed[i].during = "loaded"
        /\ mtls.pc = "idle"
        /\ mtls.heap[mtls.tlsConfig].cert > mtls.handed[i].was.cert

\* C36: on every payload the DNS and TLS parsers return, without a run-time
\* error for an index or a slice bound outside the payload and without
\* recursing without end.
C36_ParsersNeverCrash ==
    lastParse.done => lastParse.crash = ""

\* the bytes u are the UTF-8 encoding of one Unicode scalar value
EncodesScalar(u) ==
    LET c(k) == u[k] - 128
        cont(k) == u[k] >= 128 /\ u[k] <= 191
    IN  CASE Len(u) = 1 -> u[1] < 128
          [] Len(u) = 2 -> /\ u[1] >= 192 /\ u[1] <= 223 /\ cont(2)
                           /\ (u[1] - 192) * 64 + c(2) >= 128
          [] Len(u) = 3 -> /\ u[1] >= 224 /\ u[1] <= 239 /\ cont(2) /\ cont(3)
                           /\ LET v == (u[1] - 224) * 4096 + c(2) * 64 + c(3)
                              IN  v >= 2048 /\ ~(v >= 55296 /\ v <= 57343)
          [] Len(u) = 4 -> /\ u[1] >= 240 /\ u[1] <= 247 /\ cont(2) /\ cont(3) /\ cont(4)
                           /\ LET v == (u[1] - 240) * 262144 + c(2) * 4096
                                            + c(3) * 64 + c(4)
                              IN  v >= 65536 /\ v <= 1114111
          [] OTHER -> FALSE

\* the bytes b are a sequence of encoded scalar values
RECURSIVE IsUTF8(_)
IsUTF8(b) ==
    \/ \A k \in DOMAIN b : EncodesScalar(<<b[k]>>)
    \/ \E k \in 1..(IF Len(b) < 4 THEN Len(b) ELSE 4) :
          EncodesScalar(SubSeq(b, 1, k)) /\ IsUTF8(SubSeq(b, k + 1, Len(b)))

\* the extensions block the ClientHello in payload b declares: the offset of
\* its first byte and the offset after its last
ExtensionsBlock(b) ==
    LET ciphersAt == 44 + At(b, 43)
        compAt == ciphersAt + 2 + Uint16(b, ciphersAt)
        lenAt == compAt + 1 + At(b, compAt)
    IN  [from |-> lenAt + 2, to |-> lenAt + 2 + Uint16(b, lenAt)]

\* C37: when ParseTLSClientHello reports a server name, the payload has at
\* least 43 bytes, is a handshake record of major version 3 carrying a
\* ClientHello, and the name is a substring of the payload inside the declared
\* extensions block, of 1 to 253 bytes, valid UTF-8, without a control byte.
C37_SNIOnlyFromValidHello ==
    (lastParse.parser = "sni" /\ lastParse.match) =>
        LET b == lastParse.payload
            n == lastParse.name
        IN  /\ Len(b) >= 43
            /\ b[1] = 22 /\ b[2] = 3 /\ b[6] = 1
            /\ Len(n) >= 1 /\ Len(n) <= 253
            /\ ExtensionsBlock(b).to <= Len(b)
            /\ \E from \in ExtensionsBlock(b).from..ExtensionsBlock(b).to :
                  /\ from + Len(n) <= ExtensionsBlock(b).to
                  /\ Slice(b, from, from + Len(n)) = n
            /\ IsUTF8(n)
            /\ \A k \in DOMAIN n : n[k] >= 32 /\ n[k] # 127

\* a server name of 253 bytes was reported
C37_Witness ==
    /\ lastParse.parser = "sni" /\ lastParse.match
    /\ Len(lastParse.name) = 253

\* the canonical verbs
CanonicalVerbs ==
    {<<71, 69, 84>>, <<80, 79, 83, 84>>, <<80, 85, 84>>,
     <<68, 69, 76, 69, 84, 69>>, <<72, 69, 65, 68>>,
     <<79, 80, 84, 73, 79, 78, 83>>, <<80, 65, 84, 67, 72>>}

\* the verb the payload starts with, a space after it
VerbOf(payload) ==
    {v \in CanonicalVerbs :
        /\ Len(payload) > Len(v)
        /\ \A k \in DOMAIN v : payload[k] = v[k]
        /\ payload[Len(v) + 1] = 32}

\* no null byte among the first 256 bytes
NoEarlyNull(payload) ==
    \A k \in DOMAIN payload : k <= 256 => payload[k] # 0

\* "\r\nHost: " occurs among the bytes inspected
HasHostHeader(payload) ==
    \E k \in 1..MaxPayloadSize :
        /\ k + 7 <= Len(payload) /\ k + 7 <= MaxPayloadSize
        /\ payload[k] = 13 /\ payload[k + 1] = 10 /\ payload[k + 2] = 72
        /\ payload[k + 3] = 111 /\ payload[k + 4] = 115
        /\ payload[k + 5] = 116 /\ payload[k + 6] = 58 /\ payload[k + 7] = 32

\* C38: a Host value ParseHTTPRequest returns contains no control byte, that
\* is no byte below 32 and no DEL
C38_HostWithoutControlByte ==
    (lastParse.parser = "http" /\ lastParse.match)
        => \A k \in DOMAIN lastParse.name :
               lastParse.name[k] >= 32 /\ lastParse.name[k] # 127

\* what does hold of ParseHTTPRequest: it accepts a payload only if it starts
\* with a canonical verb followed by a space and has no null byte in its
\* first 256 bytes, and then reports that verb; such a payload with no Host
\* header is accepted with an empty host; the one control byte a Host value
\* it returns may contain is the horizontal tab
AcceptsCanonicalRequests ==
    lastParse.parser = "http" =>
        LET payload == lastParse.payload
        IN  /\ lastParse.match
                => /\ lastParse.method \in VerbOf(payload)
                   /\ NoEarlyNull(payload)
                   /\ \A k \in DOMAIN lastParse.name :
                          \/ lastParse.name[k] = 9
                          \/ lastParse.name[k] >= 32 /\ lastParse.name[k] # 127
            /\ (VerbOf(payload) # {} /\ NoEarlyNull(payload)
                    /\ ~HasHostHeader(payload))
                => lastParse.match /\ lastParse.name = <<>>

\* C39: during sensor shutdown no packet is submitted to the inspector's
\* worker queue after the queue has been closed: no ProcessPacket call of a
\* capture goroutine finds workerPool closed.
C39_NoSendOnClosedQueue ==
    ~(lastSubmit.outcome # "none" /\ lastSubmit.closed)

\* a publish attempted with the breaker half-open has just failed
HalfOpenFailure ==
    /\ lastFlush.done /\ lastFlush.during = circuitHalfOpen
    /\ lastFlush.attempted /\ ~lastFlush.ok

\* the breaker leaves half-open for closed only with the required number of
\* successes counted since it entered half-open
ClosesAfterSuccesses ==
    [][(cb.state = circuitHalfOpen /\ cb'.state = circuitClosed)
          => (lastFlush'.ok /\ cb'.successCount >= RecoveryThreshold)]_vars

\* C40: a publish failure while the circuit breaker is half-open returns it to
\* open at once, so that no further publish is attempted until the timeout
\* has passed again; and the breaker goes from half-open to closed only
\* after the required number of successes since it entered half-open.
C40_HalfOpenFailureReopens ==
    /\ HalfOpenFailure => cb.state = circuitOpen
    /\ (lastFlush.done /\ lastFlush.before = circuitHalfOpen /\ cb.state = circuitClosed)
           => cb.successCount >= RecoveryThreshold

====
